---- MODULE Spec2Model ----
(***************************************************************************)
(* Model of genvalidatorkey.py: BIP39 mnemonic generation and validation,  *)
(* mnemonic-to-seed, ed25519 validator key derivation, address            *)
(* computation, and the main() pipeline that writes                        *)
(* priv_validator_key.json.                                                *)
(*                                                                         *)
(* Conventions.  A byte string is a sequence over 0..255.  A text string   *)
(* is a sequence of code points (ASCII only, so str.encode('utf-8') maps   *)
(* a code point to the byte of the same value).  Python's None is the      *)
(* TLA+ string "None".  An operation that can raise returns a record:      *)
(* Return(v) for a normal return of v, Raise(e) for exception class e.     *)
(*                                                                         *)
(* hashlib.sha256 is computed bit-exactly (FIPS 180-4).  Two library       *)
(* primitives cannot be evaluated by the model checker in reasonable time: *)
(* hashlib.pbkdf2_hmac (2048 rounds of HMAC-SHA512) and the ed25519        *)
(* public-key computation.  They are tabulated: Pbkdf2HmacSha512Table and  *)
(* Ed25519Table hold the values of the library functions (hashlib; RFC     *)
(* 8032) for every argument that the specifications of this module pass    *)
(* to them, and the two operators are defined on these arguments only.     *)
(***************************************************************************)
EXTENDS Integers, Sequences, FiniteSets, TLC

(***************************************************************************)
(* Bounds of the model.                                                    *)
(***************************************************************************)
\* Entropy samples 0..MaxEntropySample are drawn per entropy length.
MaxEntropySample == 1
\* Mnemonic samples 0..MaxPhraseSample are given on the command line.
MaxPhraseSample == 1
\* Seed samples 0..MaxSeedSample are given to generate_from_seed.
MaxSeedSample == 7
\* Number of successive pipeline runs that are compared.
MaxRuns == 2

(***************************************************************************)
(* Generic helpers.                                                        *)
(***************************************************************************)
None == "None"
Return(v) == [raised |-> None, value |-> v]
Raise(e) == [raised |-> e, value |-> None]
IsRaise(r) == r.raised # None

MaxOf(S) == CHOOSE x \in S : \A y \in S : y <= x
MinOf(S) == CHOOSE x \in S : \A y \in S : x <= y

\* The sequence with the elements of the function f on 1..n.
Tuple(f) == f \o <<>>

(***************************************************************************)
(* hashlib.sha256: SHA-256 over byte strings.  A 32-bit word is a pair     *)
(* <<hi, lo>> of 16-bit halves (TLC's integers are 32-bit signed).     *)
(* XorTab / AndTab are the 4-bit XOR / AND tables.                         *)
(***************************************************************************)
XorTab ==
  <<
    <<0, 1, 2, 3, 4, 5, 6, 7, 8, 9, 10, 11, 12, 13, 14, 15>>,
    <<1, 0, 3, 2, 5, 4, 7, 6, 9, 8, 11, 10, 13, 12, 15, 14>>,
    <<2, 3, 0, 1, 6, 7, 4, 5, 10, 11, 8, 9, 14, 15, 12, 13>>,
    <<3, 2, 1, 0, 7, 6, 5, 4, 11, 10, 9, 8, 15, 14, 13, 12>>,
    <<4, 5, 6, 7, 0, 1, 2, 3, 12, 13, 14, 15, 8, 9, 10, 11>>,
    <<5, 4, 7, 6, 1, 0, 3, 2, 13, 12, 15, 14, 9, 8, 11, 10>>,
    <<6, 7, 4, 5, 2, 3, 0, 1, 14, 15, 12, 13, 10, 11, 8, 9>>,
    <<7, 6, 5, 4, 3, 2, 1, 0, 15, 14, 13, 12, 11, 10, 9, 8>>,
    <<8, 9, 10, 11, 12, 13, 14, 15, 0, 1, 2, 3, 4, 5, 6, 7>>,
    <<9, 8, 11, 10, 13, 12, 15, 14, 1, 0, 3, 2, 5, 4, 7, 6>>,
    <<10, 11, 8, 9, 14, 15, 12, 13, 2, 3, 0, 1, 6, 7, 4, 5>>,
    <<11, 10, 9, 8, 15, 14, 13, 12, 3, 2, 1, 0, 7, 6, 5, 4>>,
    <<12, 13, 14, 15, 8, 9, 10, 11, 4, 5, 6, 7, 0, 1, 2, 3>>,
    <<13, 12, 15, 14, 9, 8, 11, 10, 5, 4, 7, 6, 1, 0, 3, 2>>,
    <<14, 15, 12, 13, 10, 11, 8, 9, 6, 7, 4, 5, 2, 3, 0, 1>>,
    <<15, 14, 13, 12, 11, 10, 9, 8, 7, 6, 5, 4, 3, 2, 1, 0>>
  >>
AndTab ==
  <<
    <<0, 0, 0, 0, 0, 0, 0, 0, 0, 0, 0, 0, 0, 0, 0, 0>>,
    <<0, 1, 0, 1, 0, 1, 0, 1, 0, 1, 0, 1, 0, 1, 0, 1>>,
    <<0, 0, 2, 2, 0, 0, 2, 2, 0, 0, 2, 2, 0, 0, 2, 2>>,
    <<0, 1, 2, 3, 0, 1, 2, 3, 0, 1, 2, 3, 0, 1, 2, 3>>,
    <<0, 0, 0, 0, 4, 4, 4, 4, 0, 0, 0, 0, 4, 4, 4, 4>>,
    <<0, 1, 0, 1, 4, 5, 4, 5, 0, 1, 0, 1, 4, 5, 4, 5>>,
    <<0, 0, 2, 2, 4, 4, 6, 6, 0, 0, 2, 2, 4, 4, 6, 6>>,
    <<0, 1, 2, 3, 4, 5, 6, 7, 0, 1, 2, 3, 4, 5, 6, 7>>,
    <<0, 0, 0, 0, 0, 0, 0, 0, 8, 8, 8, 8, 8, 8, 8, 8>>,
    <<0, 1, 0, 1, 0, 1, 0, 1, 8, 9, 8, 9, 8, 9, 8, 9>>,
    <<0, 0, 2, 2, 0, 0, 2, 2, 8, 8, 10, 10, 8, 8, 10, 10>>,
    <<0, 1, 2, 3, 0, 1, 2, 3, 8, 9, 10, 11, 8, 9, 10, 11>>,
    <<0, 0, 0, 0, 4, 4, 4, 4, 8, 8, 8, 8, 12, 12, 12, 12>>,
    <<0, 1, 0, 1, 4, 5, 4, 5, 8, 9, 8, 9, 12, 13, 12, 13>>,
    <<0, 0, 2, 2, 4, 4, 6, 6, 8, 8, 10, 10, 12, 12, 14, 14>>,
    <<0, 1, 2, 3, 4, 5, 6, 7, 8, 9, 10, 11, 12, 13, 14, 15>>
  >>
Xor8n(a, b) == XorTab[(a \div 16) + 1][(b \div 16) + 1] * 16 + XorTab[(a % 16) + 1][(b % 16) + 1]
And8n(a, b) == AndTab[(a \div 16) + 1][(b \div 16) + 1] * 16 + AndTab[(a % 16) + 1][(b % 16) + 1]
Xor16(a, b) == Xor8n(a \div 256, b \div 256) * 256 + Xor8n(a % 256, b % 256)
And16(a, b) == And8n(a \div 256, b \div 256) * 256 + And8n(a % 256, b % 256)

Xor32(x, y) == <<Xor16(x[1], y[1]), Xor16(x[2], y[2])>>
And32(x, y) == <<And16(x[1], y[1]), And16(x[2], y[2])>>
Not32(x) == <<65535 - x[1], 65535 - x[2]>>
Add32(x, y) ==
  <<(x[1] + y[1] + ((x[2] + y[2]) \div 65536)) % 65536, (x[2] + y[2]) % 65536>>

RotrLow(x, n) ==
  IF n = 0 THEN x
  ELSE <<(x[1] \div 2^n) + (x[2] % 2^n) * 2^(16 - n),
         (x[2] \div 2^n) + (x[1] % 2^n) * 2^(16 - n)>>
Rotr(x, n) == IF n < 16 THEN RotrLow(x, n) ELSE RotrLow(<<x[2], x[1]>>, n - 16)
Shr(x, n) == <<x[1] \div 2^n, (x[2] \div 2^n) + (x[1] % 2^n) * 2^(16 - n)>>

Ch(x, y, z) == Xor32(And32(x, y), And32(Not32(x), z))
Maj(x, y, z) == Xor32(Xor32(And32(x, y), And32(x, z)), And32(y, z))
BigSigma0(x) == Xor32(Xor32(Rotr(x, 2), Rotr(x, 13)), Rotr(x, 22))
BigSigma1(x) == Xor32(Xor32(Rotr(x, 6), Rotr(x, 11)), Rotr(x, 25))
SmallSigma0(x) == Xor32(Xor32(Rotr(x, 7), Rotr(x, 18)), Shr(x, 3))
SmallSigma1(x) == Xor32(Xor32(Rotr(x, 17), Rotr(x, 19)), Shr(x, 10))

H0 == <<<<27145, 58983>>, <<47975, 44677>>, <<15470, 62322>>, <<42319, 62778>>, <<20750, 21119>>, <<39685, 26764>>, <<8067, 55723>>, <<23520, 52505>>>>
K ==
  <<
    <<17034, 12184>>, <<28983, 17553>>, <<46528, 64463>>, <<59829, 56229>>,
    <<14678, 49755>>, <<23025, 4593>>, <<37439, 33444>>, <<43804, 24277>>,
    <<55303, 43672>>, <<4739, 23297>>, <<9265, 34238>>, <<21772, 32195>>,
    <<29374, 23924>>, <<32990, 45566>>, <<39900, 1703>>, <<49563, 61812>>,
    <<58523, 27073>>, <<61374, 18310>>, <<4033, 40390>>, <<9228, 41420>>,
    <<11753, 11375>>, <<19060, 33962>>, <<23728, 43484>>, <<30457, 35034>>,
    <<38974, 20818>>, <<43057, 50797>>, <<45059, 10184>>, <<48985, 32711>>,
    <<50912, 3059>>, <<54695, 37191>>, <<1738, 25425>>, <<5161, 10599>>,
    <<10167, 2693>>, <<11803, 8504>>, <<19756, 28156>>, <<21304, 3347>>,
    <<25866, 29524>>, <<30314, 2747>>, <<33218, 51502>>, <<37490, 11397>>,
    <<41663, 59553>>, <<43034, 26187>>, <<49739, 35696>>, <<51052, 20899>>,
    <<53650, 59417>>, <<54937, 1572>>, <<62478, 13701>>, <<4202, 41072>>,
    <<6564, 49430>>, <<7735, 27656>>, <<10056, 30540>>, <<13488, 48309>>,
    <<14620, 3251>>, <<20184, 43594>>, <<23452, 51791>>, <<26670, 28659>>,
    <<29839, 33518>>, <<30885, 25455>>, <<33992, 30740>>, <<36039, 520>>,
    <<37054, 65530>>, <<42064, 27883>>, <<48889, 41975>>, <<50801, 30962>>
  >>

\* The message schedule: W extended from 16 to 64 words.
RECURSIVE Schedule(_)
Schedule(W) ==
  IF Len(W) >= 64 THEN W
  ELSE Schedule(Append(W,
         Add32(Add32(SmallSigma1(W[Len(W) - 1]), W[Len(W) - 6]),
               Add32(SmallSigma0(W[Len(W) - 14]), W[Len(W) - 15]))))

\* One round on the working variables s = <<a, b, c, d, e, f, g, h>>.
Round(s, k, w) ==
  LET Shifted(T1, T2) ==
        <<Add32(T1, T2), s[1], s[2], s[3], Add32(s[4], T1), s[5], s[6], s[7]>>
  IN Shifted(Add32(Add32(Add32(s[8], BigSigma1(s[5])), Add32(Ch(s[5], s[6], s[7]), k)), w),
             Add32(BigSigma0(s[1]), Maj(s[1], s[2], s[3])))

\* Rounds t..64.
RECURSIVE Rounds(_, _, _)
Rounds(s, W, t) ==
  IF t > 64 \/ Len(s) # 8 THEN s
  ELSE Rounds(Round(s, K[t], W[t]), W, t + 1)

\* The compression function on one block of 16 words.
Compress(h, block) ==
  LET Added(s) ==
        <<Add32(h[1], s[1]), Add32(h[2], s[2]), Add32(h[3], s[3]), Add32(h[4], s[4]),
          Add32(h[5], s[5]), Add32(h[6], s[6]), Add32(h[7], s[7]), Add32(h[8], s[8])>>
  IN Added(Rounds(h, Schedule(block), 1))

\* Padding: 0x80, zeros, and the bit length as a 64-bit big-endian number.
Pad(msg) ==
  msg \o <<128>> \o [i \in 1..((55 - Len(msg)) % 64) |-> 0] \o <<0, 0, 0, 0>>
      \o <<((8 * Len(msg)) \div 16777216) % 256, ((8 * Len(msg)) \div 65536) % 256,
           ((8 * Len(msg)) \div 256) % 256, (8 * Len(msg)) % 256>>

\* The 16 words of block b of the padded message p.
BlockWords(p, b) ==
  Tuple([j \in 1..16 |->
           <<p[64 * (b - 1) + 4 * (j - 1) + 1] * 256 + p[64 * (b - 1) + 4 * (j - 1) + 2],
             p[64 * (b - 1) + 4 * (j - 1) + 3] * 256 + p[64 * (b - 1) + 4 * (j - 1) + 4]>>])

\* Blocks b.. of the padded message p, from the chaining value h.
RECURSIVE Blocks(_, _, _)
Blocks(h, p, b) ==
  IF 64 * (b - 1) >= Len(p) \/ Len(h) # 8 THEN h
  ELSE Blocks(Compress(h, BlockWords(p, b)), p, b + 1)

\* hashlib.sha256(msg).digest(): the 32 bytes of the last chaining value
sha256(msg) ==
  LET Digest(h) ==
        Tuple([i \in 1..32 |->
                 IF (i - 1) % 4 = 0 THEN h[((i - 1) \div 4) + 1][1] \div 256
                 ELSE IF (i - 1) % 4 = 1 THEN h[((i - 1) \div 4) + 1][1] % 256
                 ELSE IF (i - 1) % 4 = 2 THEN h[((i - 1) \div 4) + 1][2] \div 256
                 ELSE h[((i - 1) \div 4) + 1][2] % 256])
  IN Digest(Blocks(H0, Pad(msg), 1))
(***************************************************************************)
(* Text and byte helpers (Python built-ins used by the program).  A text   *)
(* is the sequence of its code points, a byte string the sequence of its   *)
(* bytes.                                                                  *)
(***************************************************************************)
\* Code points str.strip() / str.split() treat as whitespace (ASCII range).
Whitespace == {9, 10, 11, 12, 13, 28, 29, 30, 31, 32}
IsSpace(c) == c \in Whitespace

\* str.strip()
strip(s) ==
  LET Kept(keep) == IF keep = {} THEN <<>> ELSE SubSeq(s, MinOf(keep), MaxOf(keep))
  IN Kept({i \in 1..Len(s) : ~IsSpace(s[i])})

\* str.split() with no separator: the maximal runs of non-whitespace, in order.
split(s) ==
  LET Kth(S, k) == CHOOSE x \in S : Cardinality({y \in S : y <= x}) = k
      Runs(starts, ends) ==
        Tuple([k \in 1..Cardinality(starts) |-> SubSeq(s, Kth(starts, k), Kth(ends, k))])
  IN Runs({i \in 1..Len(s) : ~IsSpace(s[i]) /\ (i = 1 \/ IsSpace(s[i - 1]))},
          {i \in 1..Len(s) : ~IsSpace(s[i]) /\ (i = Len(s) \/ IsSpace(s[i + 1]))})

\* ' '.join(words)
RECURSIVE join(_)
join(words) ==
  IF Len(words) = 0 THEN <<>>
  ELSE IF Len(words) = 1 THEN words[1]
  ELSE words[1] \o <<32>> \o join(Tail(words))

\* str.lower(), ASCII letters
lower(s) == Tuple([i \in 1..Len(s) |-> IF s[i] \in 65..90 THEN s[i] + 32 ELSE s[i]])

\* str.encode('utf-8') on ASCII text: one byte per code point.
encode(s) == s

\* The bits of a byte string, most significant first:
\* bin(int.from_bytes(b, 'big'))[2:].zfill(8 * len(b))
BytesToBits(b) ==
  Tuple([i \in 1..(8 * Len(b)) |->
           (b[((i - 1) \div 8) + 1] \div (2 ^ (7 - ((i - 1) % 8)))) % 2])

\* bin(idx)[2:].zfill(width): the binary digits of idx, left-padded with
\* zeros to width digits (more digits when idx >= 2^width).
RECURSIVE Bin(_)
Bin(idx) == IF idx < 2 THEN <<idx>> ELSE Append(Bin(idx \div 2), idx % 2)
zfill(digits, width) ==
  IF Len(digits) >= width THEN digits
  ELSE [i \in 1..(width - Len(digits)) |-> 0] \o digits

\* int(bits, 2) for a short bit string
RECURSIVE BitsToInt(_)
BitsToInt(bits) ==
  IF Len(bits) = 0 THEN 0
  ELSE 2 * BitsToInt(SubSeq(bits, 1, Len(bits) - 1)) + bits[Len(bits)]

\* int(bits, 2).to_bytes(n, 'big'): the value must fit in n bytes, else
\* OverflowError; shorter values are left-padded with zero bits.
BitsToBytes(bits, n) ==
  LET Bit(i) == IF i + Len(bits) - 8 * n < 1 THEN 0 ELSE bits[i + Len(bits) - 8 * n]
  IN IF \E i \in 1..(Len(bits) - 8 * n) : bits[i] = 1 THEN Raise("OverflowError")
     ELSE Return(Tuple([k \in 1..n |->
            Bit(8 * k - 7) * 128 + Bit(8 * k - 6) * 64 + Bit(8 * k - 5) * 32
          + Bit(8 * k - 4) * 16 + Bit(8 * k - 3) * 8 + Bit(8 * k - 2) * 4
          + Bit(8 * k - 1) * 2 + Bit(8 * k)]))

\* Python slices s[:-c] and s[-c:] (for c = 0: s[:0] is empty, s[0:] is s).
DropLast(s, c) == IF c = 0 \/ c >= Len(s) THEN <<>> ELSE SubSeq(s, 1, Len(s) - c)
TakeLast(s, c) == IF c = 0 \/ c >= Len(s) THEN s ELSE SubSeq(s, Len(s) - c + 1, Len(s))
\* Python slice s[:c]
TakeFirst(s, c) == IF c >= Len(s) THEN s ELSE SubSeq(s, 1, c)

\* bytes.hex().upper()
HexDigit(d) == IF d < 10 THEN 48 + d ELSE 65 + (d - 10)
HexUpper(b) ==
  Tuple([i \in 1..(2 * Len(b)) |->
           IF i % 2 = 1 THEN HexDigit(b[(i + 1) \div 2] \div 16)
           ELSE HexDigit(b[(i + 1) \div 2] % 16)])

\* base64.b64encode(b).decode('ascii'): standard alphabet, '=' padding.
B64Char(v) ==
  IF v < 26 THEN 65 + v
  ELSE IF v < 52 THEN 97 + (v - 26)
  ELSE IF v < 62 THEN 48 + (v - 52)
  ELSE IF v = 62 THEN 43 ELSE 47
b64encode(b) ==
  LET At(i) == IF i <= Len(b) THEN b[i] ELSE 0
      Group(g, k) ==
        IF k = 0 THEN B64Char(At(3 * g + 1) \div 4)
        ELSE IF k = 1 THEN B64Char((At(3 * g + 1) % 4) * 16 + (At(3 * g + 2) \div 16))
        ELSE IF k = 2 THEN (IF 3 * g + 2 > Len(b) THEN 61
                            ELSE B64Char((At(3 * g + 2) % 16) * 4 + (At(3 * g + 3) \div 64)))
        ELSE (IF 3 * g + 3 > Len(b) THEN 61 ELSE B64Char(At(3 * g + 3) % 64))
  IN Tuple([i \in 1..(4 * ((Len(b) + 2) \div 3)) |-> Group((i - 1) \div 4, (i - 1) % 4)])

(***************************************************************************)
(* The file system seen by _load_wordlist.  A file is a sequence of lines  *)
(* (without the line terminator); its content is determined by its kind.   *)
(* Word(i) is the i-th word of the wordlist files used as inputs: three    *)
(* letters of 'a'..'p' spelling i in base 16.                              *)
(***************************************************************************)
WordlistSize == 2048

Word(i) == <<97 + (i \div 256), 97 + ((i \div 16) % 16), 97 + (i % 16)>>

\* Line i of the "padded" file: the same words as the standard file with
\* whitespace around some of them, a blank line after every 512th word and
\* a whitespace-only line at the end.
PaddedLine(i) ==
  IF i = WordlistSize + 4 THEN <<32, 9>>
  ELSE IF i % 513 = 0 THEN <<>>
  ELSE IF i % 3 = 0 THEN <<32, 32>> \o Word(i - 1 - (i \div 513)) \o <<13>>
  ELSE IF i % 3 = 1 THEN Word(i - 1 - (i \div 513)) \o <<32>>
  ELSE Word(i - 1 - (i \div 513))

\* The lines json.dump(validator_key, f, indent=2) writes (main, line 320):
\* eleven non-blank lines.  The three lines that carry a value (address and
\* the two base64 strings) are given up to the value, whose text is that
\* of the record written.
JsonLines ==
  <<
    <<123>>,
    <<32, 32, 34, 97, 100, 100, 114, 101, 115, 115, 34, 58, 32>>,
    <<32, 32, 34, 112, 117, 98, 95, 107, 101, 121, 34, 58, 32, 123>>,
    <<32, 32, 32, 32, 34, 116, 121, 112, 101, 34, 58, 32, 34, 116, 101, 110,
      100, 101, 114, 109, 105, 110, 116, 47, 80, 117, 98, 75, 101, 121, 69,
      100, 50, 53, 53, 49, 57, 34, 44>>,
    <<32, 32, 32, 32, 34, 118, 97, 108, 117, 101, 34, 58, 32>>,
    <<32, 32, 125, 44>>,
    <<32, 32, 34, 112, 114, 105, 118, 95, 107, 101, 121, 34, 58, 32, 123>>,
    <<32, 32, 32, 32, 34, 116, 121, 112, 101, 34, 58, 32, 34, 116, 101, 110,
      100, 101, 114, 109, 105, 110, 116, 47, 80, 114, 105, 118, 75, 101,
      121, 69, 100, 50, 53, 53, 49, 57, 34, 44>>,
    <<32, 32, 32, 32, 34, 118, 97, 108, 117, 101, 34, 58, 32>>,
    <<32, 32, 125>>,
    <<125>>
  >>

FileLines(kind) ==
  CASE kind = "standard" -> [i \in 1..WordlistSize |-> Word(i - 1)]
    [] kind = "padded" -> [i \in 1..(WordlistSize + 4) |-> PaddedLine(i)]
    [] kind = "short" -> [i \in 1..(WordlistSize - 1) |-> Word(i - 1)]
    [] kind = "long" -> [i \in 1..(WordlistSize + 1) |-> Word(i - 1)]
    [] kind = "duplicate" ->
         \* 2048 lines; the word of index 2 appears again at index 3
         [i \in 1..WordlistSize |-> IF i = 4 THEN Word(2) ELSE Word(i - 1)]
    [] kind = "json" -> JsonLines
\* A path of kind "directory" has no lines: open() raises on it.

DefaultName == "bip39.txt"
FileNames == {DefaultName, "words.txt"}
\* main, line 288
DefaultOutputFile == "priv_validator_key.json"
\* Names that main() is given for the record file, besides those above.
OutputNames == {DefaultOutputFile, "out.json"}
PathNames == FileNames \cup OutputNames

\* A file system: (directory, name) -> kind of what is there: a kind of
\* file, "directory", or "missing".  The directories are the working
\* directory and the script's directory; neither has the subdirectory "sub".
EmptyFs == [p \in {"cwd", "script"} \X PathNames |-> "missing"]
FsWith(dir, name, kind) == [EmptyFs EXCEPT ![<<dir, name>>] = kind]

exists(fs, p) == fs[p] # "missing"

(***************************************************************************)
(* class BIP39                                                             *)
(***************************************************************************)
\* _load_wordlist: the path opened.  Path(path) if it exists, else the first
\* existing one of Path(path), script_dir / path, script_dir / "bip39.txt";
\* None when none exists.
ResolvePath(fs, path) ==
  IF exists(fs, <<"cwd", path>>) THEN <<"cwd", path>>
  ELSE IF exists(fs, <<"script", path>>) THEN <<"script", path>>
  ELSE IF exists(fs, <<"script", DefaultName>>) THEN <<"script", DefaultName>>
  ELSE <<None, None>>

\* _load_wordlist: [line.strip() for line in f if line.strip()]
ReadWords(lines) ==
  SelectSeq(Tuple([i \in 1..Len(lines) |-> strip(lines[i])]), LAMBDA l : l # <<>>)

\* BIP39._load_wordlist(path): the wordlist, or the exception raised.
_load_wordlist(fs, path) ==
  LET Checked(wordlist) ==
        IF Len(wordlist) # WordlistSize THEN Raise("ValueError") ELSE Return(wordlist)
      Opened(wordlist_path) ==
        IF wordlist_path = <<None, None>> THEN Raise("FileNotFoundError")
        ELSE IF fs[wordlist_path] = "directory" THEN Raise("IsADirectoryError")
        ELSE Checked(ReadWords(FileLines(fs[wordlist_path])))
  IN Opened(ResolvePath(fs, path))

\* {word: idx for idx, word in enumerate(wordlist)} restricted to the
\* positions lo..hi: a later position overrides an earlier one.
RECURSIVE DictOf(_, _, _)
DictOf(wordlist, lo, hi) ==
  IF lo = hi THEN (wordlist[lo] :> (lo - 1))
  ELSE DictOf(wordlist, ((lo + hi) \div 2) + 1, hi) @@ DictOf(wordlist, lo, (lo + hi) \div 2)

\* BIP39(wordlist_path): the object with the attributes wordlist and
\* wordlist_dict, or the exception _load_wordlist raised.
BIP39(fs, path) ==
  LET Object(wordlist) ==
        [wordlist |-> wordlist, wordlist_dict |-> DictOf(wordlist, 1, Len(wordlist))]
      Made(loaded) == IF IsRaise(loaded) THEN loaded ELSE Return(Object(loaded.value))
  IN Made(_load_wordlist(fs, path))

\* The accepted strengths and 64 as well.
StrengthsFrom64 == {64, 128, 160, 192, 224, 256}
\* generate_mnemonic: the strengths accepted, in bits of entropy.
AllowedStrengths == {128, 160, 192, 224, 256}
\* _entropy_to_mnemonic: the entropy lengths accepted, in bytes.
AllowedEntropyLengths == {16, 20, 24, 28, 32}
\* Every word count from 12 to 24.
WordCountsFrom12To24 == 12..24
\* validate_mnemonic: the word counts accepted.
AllowedWordCounts == {12, 15, 18, 21, 24}
\* Bits per word: the step of range(0, len(bits), 11) and of zfill(11).
GroupBits == 11

\* One checksum bit per 8 bytes of entropy.
EntropyChecksumLengthEighth(entropy_len) == entropy_len \div 8
\* _entropy_to_mnemonic: checksum_length = len(entropy) // 4
EntropyChecksumLength(entropy_len) == entropy_len \div 4
\* validate_mnemonic: checksum_length = len(words) // 3
WordsChecksumLength(word_count) == word_count \div 3

\* _entropy_to_mnemonic: bits = the entropy bits + the first checksum_length
\* bits of sha256(entropy)
MnemonicBits(entropy) ==
  BytesToBits(entropy)
    \o TakeFirst(BytesToBits(sha256(entropy)), EntropyChecksumLength(Len(entropy)))

\* _entropy_to_mnemonic: [int(bits[i:i+11], 2) for i in range(0, len(bits), 11)]
\* (the last slice is shorter when len(bits) is no multiple of 11)
GroupIndices(bits) ==
  Tuple([k \in 1..((Len(bits) + GroupBits - 1) \div GroupBits) |->
           BitsToInt(SubSeq(bits, GroupBits * (k - 1) + 1,
                            IF GroupBits * k < Len(bits) THEN GroupBits * k ELSE Len(bits)))])

\* BIP39._entropy_to_mnemonic(entropy) with its local variables: bits, the
\* word indices, and ret: the mnemonic returned or the exception raised
\* (IndexError when an index is outside the wordlist).
EntropyToMnemonicRun(self, entropy) ==
  LET Words(indices) ==
        IF \E k \in 1..Len(indices) : indices[k] >= Len(self.wordlist)
        THEN Raise("IndexError")
        ELSE Return(join(Tuple([k \in 1..Len(indices) |-> self.wordlist[indices[k] + 1]])))
      Looked(bits, indices) == [bits |-> bits, indices |-> indices, ret |-> Words(indices)]
      Grouped(bits) == Looked(bits, GroupIndices(bits))
  IN IF Len(entropy) \notin AllowedEntropyLengths
     THEN [bits |-> <<>>, indices |-> <<>>, ret |-> Raise("ValueError")]
     ELSE Grouped(MnemonicBits(entropy))

\* BIP39._entropy_to_mnemonic(entropy)
_entropy_to_mnemonic(self, entropy) == EntropyToMnemonicRun(self, entropy).ret

\* BIP39.generate_mnemonic(strength) with its local variables, given the
\* function token_bytes: token_bytes[n] is what secrets.token_bytes(n)
\* returns.  drawn tells whether secrets.token_bytes was called, entropy
\* what it returned; bits, indices and ret are those of _entropy_to_mnemonic.
GenerateMnemonicRun(self, strength, token_bytes) ==
  LET Converted(entropy_bytes) ==
        [drawn |-> TRUE, entropy |-> entropy_bytes]
          @@ EntropyToMnemonicRun(self, entropy_bytes)
  IN IF strength \notin AllowedStrengths
     THEN [drawn |-> FALSE, entropy |-> <<>>, bits |-> <<>>, indices |-> <<>>,
           ret |-> Raise("ValueError")]
     ELSE Converted(token_bytes[strength \div 8])

\* BIP39.generate_mnemonic(strength)
generate_mnemonic(self, strength, token_bytes) ==
  GenerateMnemonicRun(self, strength, token_bytes).ret

\* validate_mnemonic: ''.join(bin(idx)[2:].zfill(11) for idx in indices)
RECURSIVE IndexBits(_)
IndexBits(indices) ==
  IF Len(indices) = 0 THEN <<>>
  ELSE zfill(Bin(Head(indices)), GroupBits) \o IndexBits(Tail(indices))

\* BIP39.validate_mnemonic(mnemonic) with its local variables words,
\* entropy_bits, checksum_bits, and ret: the value returned or the
\* exception raised.
ValidateMnemonicRun(self, mnemonic) ==
  LET Compared(entropy, checksum_bits, checksum_length) ==
        IF IsRaise(entropy) THEN entropy
        ELSE Return(checksum_bits
                      = TakeFirst(BytesToBits(sha256(entropy.value)), checksum_length))
      Cut(words, entropy_bits, checksum_bits, checksum_length) ==
        [words |-> words, entropy_bits |-> entropy_bits, checksum_bits |-> checksum_bits,
         ret |-> Compared(BitsToBytes(entropy_bits, Len(entropy_bits) \div 8),
                          checksum_bits, checksum_length)]
      Joined(words, bits, checksum_length) ==
        Cut(words, DropLast(bits, checksum_length), TakeLast(bits, checksum_length),
            checksum_length)
      Tokenized(words) ==
        IF Len(words) \notin AllowedWordCounts
        THEN [words |-> words, entropy_bits |-> <<>>, checksum_bits |-> <<>>,
              ret |-> Return(FALSE)]
        ELSE IF \E i \in 1..Len(words) : words[i] \notin DOMAIN self.wordlist_dict
        THEN \* KeyError, caught
             [words |-> words, entropy_bits |-> <<>>, checksum_bits |-> <<>>,
              ret |-> Return(FALSE)]
        ELSE Joined(words,
                    IndexBits(Tuple([i \in 1..Len(words) |-> self.wordlist_dict[words[i]]])),
                    WordsChecksumLength(Len(words)))
  IN Tokenized(split(strip(mnemonic)))

\* BIP39.validate_mnemonic(mnemonic)
validate_mnemonic(self, mnemonic) == ValidateMnemonicRun(self, mnemonic).ret

\* Block size of SHA-512 in bytes: HMAC-SHA512 pads a key of at most this
\* length with zero bytes to the block size (RFC 2104).
HmacBlockSize == 128

\* The key HMAC works with, up to the zero padding: the password without
\* its trailing zero bytes.  Passwords that differ only in trailing zero
\* bytes are the same HMAC key.
RECURSIVE HmacKey(_)
HmacKey(password) ==
  IF password # <<>> /\ password[Len(password)] = 0
  THEN HmacKey(SubSeq(password, 1, Len(password) - 1))
  ELSE password

\* hashlib.pbkdf2_hmac('sha512', password, salt, iterations), tabulated:
\* the 64-byte keys the library function returns for the passwords and salts
\* that the specifications of this module pass to it, and for the BIP39
\* reference mnemonic 'abandon ... about'.
Pbkdf2HmacSha512Table ==
  {
    [password |->
       <<32, 97, 97, 97, 9, 97, 97, 97, 32, 32, 97, 97, 97, 9, 97, 97, 97, 32, 32,
         97, 97, 97, 9, 97, 97, 97, 32, 32, 97, 97, 97, 9, 97, 97, 97, 32, 32,
         97, 97, 97, 9, 97, 97, 97, 32, 32, 97, 97, 97, 9, 97, 97, 100, 10>>,
     salt |-> <<109, 110, 101, 109, 111, 110, 105, 99>>,
     iterations |-> 2048,
     key |->
       <<40, 72, 124, 166, 237, 215, 137, 22, 77, 236, 99, 224, 76, 113, 43, 4, 82,
         98, 15, 62, 150, 106, 11, 48, 153, 128, 98, 156, 18, 112, 108, 147,
         148, 190, 182, 89, 223, 232, 81, 128, 151, 33, 222, 76, 78, 46, 144,
         254, 185, 89, 74, 28, 142, 142, 93, 39, 206, 194, 54, 244, 108, 135,
         29, 98>>],
    [password |->
       <<32, 97, 97, 97, 9, 97, 97, 97, 32, 32, 97, 97, 97, 9, 97, 97, 97, 32, 32,
         97, 97, 97, 9, 97, 97, 97, 32, 32, 97, 97, 97, 9, 97, 97, 97, 32, 32,
         97, 97, 97, 9, 97, 97, 97, 32, 32, 97, 97, 97, 9, 97, 97, 100, 10>>,
     salt |-> <<109, 110, 101, 109, 111, 110, 105, 99, 120>>,
     iterations |-> 2048,
     key |->
       <<77, 162, 186, 140, 161, 137, 202, 224, 174, 162, 182, 241, 106, 46, 205,
         133, 218, 137, 97, 176, 251, 169, 65, 129, 48, 165, 150, 229, 225, 0,
         90, 59, 13, 117, 59, 43, 204, 206, 227, 158, 213, 116, 246, 22, 179,
         143, 9, 40, 122, 90, 186, 101, 41, 248, 147, 179, 132, 164, 1, 218,
         10, 40, 183, 182>>],
    [password |->
       <<97, 97, 97, 32, 97, 97, 97, 32, 97, 97, 97, 32, 97, 97, 97, 32, 97, 97, 97,
         32, 97, 97, 97, 32, 97, 97, 97, 32, 97, 97, 97, 32, 97, 97, 97, 32,
         97, 97, 97, 32, 97, 97, 97, 32, 97, 97, 97, 32, 97, 97, 97, 32, 97,
         97, 97, 32, 97, 97, 97, 32, 97, 97, 97, 32, 97, 97, 97, 32, 97, 97,
         97, 32, 97, 97, 97, 32, 97, 97, 97, 32, 97, 97, 97, 32, 97, 97, 97,
         32, 97, 97, 97, 32, 97, 103, 103>>,
     salt |-> <<109, 110, 101, 109, 111, 110, 105, 99>>,
     iterations |-> 2048,
     key |->
       <<164, 95, 193, 219, 207, 219, 77, 236, 220, 220, 149, 230, 30, 86, 172, 172,
         25, 10, 7, 52, 114, 62, 242, 27, 113, 62, 24, 85, 249, 7, 103, 188,
         73, 90, 88, 226, 107, 35, 41, 18, 144, 7, 245, 245, 132, 131, 126,
         191, 158, 118, 129, 246, 66, 78, 186, 222, 10, 176, 23, 111, 147, 25,
         123, 18>>],
    [password |->
       <<97, 97, 97, 32, 97, 97, 97, 32, 97, 97, 97, 32, 97, 97, 97, 32, 97, 97, 97,
         32, 97, 97, 97, 32, 97, 97, 97, 32, 97, 97, 97, 32, 97, 97, 97, 32,
         97, 97, 97, 32, 97, 97, 97, 32, 97, 97, 99>>,
     salt |-> <<109, 110, 101, 109, 111, 110, 105, 99>>,
     iterations |-> 2048,
     key |->
       <<23, 87, 100, 44, 36, 113, 135, 200, 143, 109, 177, 202, 56, 186, 116, 223,
         123, 165, 80, 153, 104, 162, 243, 112, 136, 93, 232, 51, 116, 89,
         231, 100, 38, 134, 238, 166, 173, 120, 131, 233, 181, 18, 169, 42,
         126, 194, 71, 213, 237, 19, 177, 109, 167, 39, 121, 127, 35, 42, 170,
         2, 63, 157, 45, 181>>],
    [password |->
       <<97, 97, 97, 32, 97, 97, 97, 32, 97, 97, 97, 32, 97, 97, 97, 32, 97, 97, 97,
         32, 97, 97, 97, 32, 97, 97, 97, 32, 97, 97, 97, 32, 97, 97, 97, 32,
         97, 97, 97, 32, 97, 97, 97, 32, 97, 97, 100>>,
     salt |-> <<109, 110, 101, 109, 111, 110, 105, 99>>,
     iterations |-> 2048,
     key |->
       <<118, 9, 95, 147, 188, 243, 21, 90, 32, 2, 37, 88, 0, 174, 137, 155, 32, 255,
         12, 58, 28, 188, 100, 130, 102, 237, 54, 128, 31, 187, 181, 66, 21,
         34, 238, 115, 88, 181, 180, 151, 21, 233, 199, 107, 139, 39, 145,
         201, 186, 84, 219, 95, 62, 126, 44, 148, 234, 12, 233, 246, 230, 92,
         31, 164>>],
    [password |->
       <<97, 97, 97, 32, 97, 97, 97, 32, 97, 97, 97, 32, 97, 97, 97, 32, 97, 97, 97,
         32, 97, 97, 97, 32, 97, 97, 97, 32, 97, 97, 97, 32, 97, 97, 97, 32,
         97, 97, 97, 32, 97, 97, 97, 32, 97, 97, 100>>,
     salt |-> <<109, 110, 101, 109, 111, 110, 105, 99, 120>>,
     iterations |-> 2048,
     key |->
       <<215, 241, 236, 11, 196, 155, 252, 241, 192, 197, 241, 192, 124, 59, 61, 18,
         161, 138, 122, 174, 143, 141, 21, 71, 166, 221, 129, 16, 67, 13, 186,
         163, 199, 63, 212, 6, 187, 38, 28, 20, 103, 159, 70, 3, 93, 62, 238,
         206, 20, 9, 146, 134, 220, 138, 123, 60, 114, 28, 113, 236, 19, 94,
         42, 189>>],
    [password |->
       <<97, 97, 97, 32, 97, 97, 97, 32, 97, 97, 97, 32, 97, 97, 97, 32, 97, 97, 97,
         32, 97, 97, 97, 32, 97, 97, 97, 32, 97, 97, 97, 32, 97, 97, 97, 32,
         97, 97, 97, 32, 97, 97, 97, 32, 97, 97, 100, 32, 97, 97, 97>>,
     salt |-> <<109, 110, 101, 109, 111, 110, 105, 99>>,
     iterations |-> 2048,
     key |->
       <<137, 227, 249, 49, 161, 193, 234, 170, 46, 83, 33, 202, 79, 164, 219, 195,
         215, 125, 227, 200, 108, 209, 105, 118, 129, 209, 175, 35, 75, 16,
         20, 153, 85, 19, 136, 53, 125, 168, 177, 142, 228, 150, 191, 98, 193,
         229, 76, 1, 121, 116, 100, 50, 34, 41, 182, 128, 183, 1, 147, 223,
         128, 67, 159, 208>>],
    [password |->
       <<97, 98, 97, 110, 100, 111, 110, 32, 97, 98, 97, 110, 100, 111, 110, 32, 97,
         98, 97, 110, 100, 111, 110, 32, 97, 98, 97, 110, 100, 111, 110, 32,
         97, 98, 97, 110, 100, 111, 110, 32, 97, 98, 97, 110, 100, 111, 110,
         32, 97, 98, 97, 110, 100, 111, 110, 32, 97, 98, 97, 110, 100, 111,
         110, 32, 97, 98, 97, 110, 100, 111, 110, 32, 97, 98, 97, 110, 100,
         111, 110, 32, 97, 98, 97, 110, 100, 111, 110, 32, 97, 98, 111, 117,
         116>>,
     salt |-> <<109, 110, 101, 109, 111, 110, 105, 99>>,
     iterations |-> 2048,
     key |->
       <<94, 176, 11, 189, 220, 240, 105, 8, 72, 137, 168, 171, 145, 85, 86, 129,
         101, 245, 196, 83, 204, 184, 94, 112, 129, 26, 174, 214, 246, 218,
         95, 193, 154, 90, 196, 11, 56, 156, 211, 112, 208, 134, 32, 109, 236,
         138, 166, 196, 61, 174, 166, 105, 15, 32, 173, 61, 141, 72, 178, 210,
         206, 158, 56, 228>>],
    [password |->
       <<104, 112, 112, 32, 97, 97, 99, 32, 97, 107, 99, 32, 102, 109, 103, 32, 100,
         108, 106, 32, 98, 112, 103, 32, 98, 98, 99, 32, 100, 106, 111, 32,
         102, 101, 110, 32, 102, 99, 112, 32, 104, 106, 102, 32, 102, 102,
         107>>,
     salt |-> <<109, 110, 101, 109, 111, 110, 105, 99>>,
     iterations |-> 2048,
     key |->
       <<156, 58, 235, 29, 96, 173, 23, 156, 27, 16, 161, 31, 64, 186, 2, 158, 122,
         148, 215, 60, 245, 60, 22, 255, 49, 128, 41, 81, 172, 167, 161, 64,
         217, 187, 142, 132, 0, 205, 8, 109, 46, 244, 14, 98, 161, 80, 53,
         108, 110, 72, 136, 63, 16, 229, 250, 81, 141, 197, 67, 85, 7, 47, 10,
         11>>],
    [password |->
       <<104, 112, 112, 32, 97, 97, 99, 32, 97, 107, 99, 32, 102, 109, 103, 32, 100,
         108, 106, 32, 98, 112, 103, 32, 98, 98, 99, 32, 100, 106, 111, 32,
         102, 101, 110, 32, 102, 99, 112, 32, 104, 106, 102, 32, 102, 102,
         107>>,
     salt |-> <<109, 110, 101, 109, 111, 110, 105, 99, 120>>,
     iterations |-> 2048,
     key |->
       <<140, 248, 203, 204, 149, 170, 229, 48, 63, 69, 233, 182, 186, 247, 175, 230,
         211, 220, 131, 150, 82, 129, 94, 123, 68, 54, 221, 250, 79, 6, 157,
         191, 166, 5, 235, 135, 235, 174, 168, 8, 80, 169, 75, 75, 171, 252,
         74, 136, 204, 15, 175, 52, 244, 106, 41, 63, 79, 50, 69, 214, 171,
         44, 109, 203>>],
    [password |->
       <<104, 112, 112, 32, 97, 97, 99, 32, 97, 107, 99, 32, 102, 109, 103, 32, 100,
         108, 106, 32, 98, 112, 103, 32, 98, 98, 99, 32, 100, 106, 111, 32,
         102, 101, 110, 32, 102, 99, 112, 32, 104, 106, 102, 32, 102, 102,
         108>>,
     salt |-> <<109, 110, 101, 109, 111, 110, 105, 99>>,
     iterations |-> 2048,
     key |->
       <<26, 224, 241, 138, 21, 142, 239, 164, 155, 205, 63, 229, 183, 215, 75, 76,
         195, 120, 18, 190, 131, 203, 127, 155, 8, 185, 150, 17, 148, 48, 51,
         107, 38, 38, 180, 182, 232, 249, 196, 51, 169, 75, 162, 219, 201,
         253, 52, 60, 109, 164, 86, 99, 152, 156, 117, 32, 141, 242, 59, 210,
         184, 67, 95, 144>>],
    [password |->
       <<104, 112, 112, 32, 97, 97, 99, 32, 97, 107, 99, 32, 102, 109, 103, 32, 100,
         108, 106, 32, 98, 112, 103, 32, 98, 98, 99, 32, 100, 106, 111, 32,
         102, 101, 110, 32, 102, 99, 112, 32, 104, 106, 102, 32, 102, 102,
         111, 32, 97, 104, 102, 32, 104, 110, 105, 32, 97, 99, 98, 32, 101,
         98, 104, 32, 98, 98, 98, 32, 100, 101, 111, 32, 97, 105, 103, 32,
         101, 111, 102, 32, 101, 108, 99, 32, 98, 108, 110, 32, 104, 102, 97,
         32, 102, 101, 101>>,
     salt |-> <<109, 110, 101, 109, 111, 110, 105, 99>>,
     iterations |-> 2048,
     key |->
       <<35, 139, 147, 129, 72, 55, 29, 198, 91, 133, 102, 154, 47, 150, 43, 53, 24,
         59, 239, 208, 222, 52, 233, 79, 6, 194, 68, 168, 180, 42, 142, 172,
         251, 74, 46, 80, 211, 20, 172, 232, 201, 82, 247, 233, 214, 125, 155,
         79, 92, 13, 173, 241, 228, 126, 159, 169, 168, 242, 225, 249, 247,
         37, 95, 203>>],
    [password |->
       <<104, 112, 112, 32, 97, 97, 99, 32, 97, 111, 110, 32, 97, 98, 105, 32, 103,
         101, 108, 32, 103, 105, 107, 32, 102, 108, 104, 32, 97, 109, 100, 32,
         103, 104, 103, 32, 103, 104, 106, 32, 98, 110, 112, 32, 104, 107, 97,
         32, 99, 105, 105, 32, 97, 103, 109, 32, 101, 109, 103, 32, 98, 100,
         109, 32, 99, 100, 107, 32, 101, 106, 104, 32, 99, 110, 97, 32, 104,
         100, 104, 32, 104, 101, 101, 32, 103, 102, 99, 32, 100, 112, 102, 32,
         99, 109, 97>>,
     salt |-> <<109, 110, 101, 109, 111, 110, 105, 99>>,
     iterations |-> 2048,
     key |->
       <<96, 164, 24, 254, 90, 148, 131, 52, 186, 17, 112, 71, 237, 212, 153, 232,
         77, 15, 245, 22, 52, 84, 233, 243, 143, 242, 226, 10, 47, 40, 167,
         73, 144, 102, 146, 163, 89, 166, 99, 19, 124, 192, 31, 149, 84, 93,
         44, 118, 121, 195, 203, 185, 43, 39, 120, 140, 237, 127, 234, 76,
         143, 201, 3, 56>>],
    [password |->
       <<104, 112, 112, 32, 97, 97, 99, 32, 97, 111, 110, 32, 97, 98, 105, 32, 103,
         101, 108, 32, 103, 105, 107, 32, 102, 108, 104, 32, 97, 109, 100, 32,
         103, 104, 103, 32, 103, 104, 106, 32, 98, 110, 112, 32, 104, 107,
         103>>,
     salt |-> <<109, 110, 101, 109, 111, 110, 105, 99>>,
     iterations |-> 2048,
     key |->
       <<187, 90, 71, 142, 221, 194, 139, 74, 160, 174, 95, 98, 114, 27, 179, 52,
         201, 140, 159, 253, 36, 126, 46, 163, 160, 17, 43, 162, 60, 95, 115,
         62, 253, 239, 46, 203, 90, 81, 116, 129, 159, 206, 124, 75, 148, 175,
         247, 211, 161, 213, 187, 232, 57, 148, 73, 49, 139, 171, 34, 189, 29,
         38, 67, 22>>],
    [password |->
       <<122, 122, 122, 32, 97, 97, 97, 32, 97, 97, 97, 32, 97, 97, 97, 32, 97, 97,
         97, 32, 97, 97, 97, 32, 97, 97, 97, 32, 97, 97, 97, 32, 97, 97, 97,
         32, 97, 97, 97, 32, 97, 97, 97, 32, 97, 97, 100>>,
     salt |-> <<109, 110, 101, 109, 111, 110, 105, 99>>,
     iterations |-> 2048,
     key |->
       <<2, 149, 114, 154, 21, 225, 151, 170, 100, 41, 165, 237, 6, 8, 158, 72, 229,
         123, 14, 38, 206, 195, 19, 77, 45, 240, 15, 166, 8, 200, 145, 249,
         219, 210, 12, 190, 196, 248, 207, 162, 53, 67, 46, 116, 62, 68, 105,
         119, 192, 204, 28, 48, 219, 97, 121, 125, 38, 155, 174, 196, 79, 135,
         98, 222>>]
  }

\* hashlib.pbkdf2_hmac('sha512', password, salt, iterations): the 64-byte
\* key, for passwords of at most HmacBlockSize bytes.  Defined on the
\* tabulated arguments only.
pbkdf2_hmac_sha512(password, salt, iterations) ==
  LET Derived(k) ==
        (CHOOSE e \in Pbkdf2HmacSha512Table :
           /\ Len(password) <= HmacBlockSize
           /\ e.password = k
           /\ e.salt = salt
           /\ e.iterations = iterations).key
  IN Derived(HmacKey(password))

\* PBKDF2 round count of mnemonic_to_seed.
Pbkdf2Rounds == 2048
\* 'mnemonic'
SaltPrefix == <<109, 110, 101, 109, 111, 110, 105, 99>>

\* BIP39.mnemonic_to_seed(mnemonic, passphrase)
mnemonic_to_seed(mnemonic, passphrase) ==
  pbkdf2_hmac_sha512(encode(mnemonic), encode(SaltPrefix \o passphrase), Pbkdf2Rounds)

(***************************************************************************)
(* class ValidatorKey                                                      *)
(***************************************************************************)
\* The ed25519 public key of a 32-byte seed (RFC 8032), tabulated: the keys
\* of the seeds that the specifications of this module derive keys from,
\* and of the seeds of RFC 8032 test vectors 1 and 2.
Ed25519Table ==
  {
    [seed |->
       <<0, 0, 0, 0, 0, 0, 0, 0, 0, 0, 0, 0, 0, 0, 0, 0, 0, 0, 0, 0, 0, 0, 0, 0, 0,
         0, 0, 0, 0, 0, 0, 0>>,
     public_key |->
       <<59, 106, 39, 188, 206, 182, 164, 45, 98, 163, 168, 208, 42, 111, 13, 115,
         101, 50, 21, 119, 29, 226, 67, 166, 58, 192, 72, 161, 139, 89, 218,
         41>>],
    [seed |->
       <<6, 162, 105, 49, 216, 225, 143, 175, 102, 144, 254, 119, 205, 72, 64, 17,
         215, 4, 78, 9, 201, 181, 39, 32, 149, 58, 57, 247, 27, 253, 243, 21>>,
     public_key |->
       <<92, 245, 239, 127, 0, 253, 93, 179, 129, 4, 3, 163, 41, 154, 183, 180, 95,
         0, 102, 109, 166, 202, 77, 143, 152, 102, 191, 135, 206, 21, 164,
         50>>],
    [seed |->
       <<19, 138, 70, 120, 73, 24, 2, 105, 94, 146, 227, 128, 183, 144, 188, 115, 63,
         90, 216, 0, 93, 72, 9, 50, 123, 197, 41, 118, 151, 212, 141, 53>>,
     public_key |->
       <<248, 204, 212, 91, 214, 139, 183, 180, 66, 53, 94, 104, 0, 29, 104, 95, 36,
         142, 170, 226, 189, 98, 6, 35, 67, 48, 104, 224, 232, 20, 19, 220>>],
    [seed |->
       <<21, 70, 90, 4, 217, 141, 117, 31, 179, 238, 197, 73, 122, 250, 130, 182,
         216, 59, 252, 99, 122, 184, 61, 168, 29, 0, 190, 169, 244, 137, 49,
         113>>,
     public_key |->
       <<244, 72, 149, 88, 23, 104, 109, 29, 123, 219, 202, 187, 175, 84, 0, 159,
         139, 35, 54, 163, 225, 70, 150, 122, 6, 114, 194, 50, 184, 20, 106,
         5>>],
    [seed |->
       <<23, 87, 100, 44, 36, 113, 135, 200, 143, 109, 177, 202, 56, 186, 116, 223,
         123, 165, 80, 153, 104, 162, 243, 112, 136, 93, 232, 51, 116, 89,
         231, 100>>,
     public_key |->
       <<43, 232, 157, 208, 107, 28, 248, 129, 138, 248, 80, 254, 115, 157, 229, 92,
         26, 100, 238, 98, 52, 47, 217, 81, 182, 159, 53, 206, 183, 221, 60,
         171>>],
    [seed |->
       <<29, 47, 129, 93, 142, 58, 139, 61, 7, 227, 201, 90, 126, 8, 254, 33, 90, 27,
         8, 133, 71, 137, 220, 82, 2, 223, 220, 48, 175, 125, 201, 213>>,
     public_key |->
       <<255, 100, 107, 9, 115, 28, 116, 78, 26, 209, 136, 115, 177, 109, 161, 26,
         64, 0, 111, 157, 109, 118, 193, 92, 126, 128, 74, 136, 143, 105, 10,
         164>>],
    [seed |->
       <<29, 200, 223, 60, 162, 48, 231, 223, 90, 149, 91, 167, 26, 214, 81, 138,
         144, 170, 141, 73, 241, 31, 1, 145, 196, 5, 124, 163, 165, 248, 97,
         64>>,
     public_key |->
       <<61, 189, 212, 45, 152, 25, 55, 207, 30, 154, 126, 91, 222, 185, 136, 82,
         255, 138, 241, 253, 14, 35, 76, 245, 115, 38, 218, 57, 49, 22, 127,
         65>>],
    [seed |->
       <<35, 139, 147, 129, 72, 55, 29, 198, 91, 133, 102, 154, 47, 150, 43, 53, 24,
         59, 239, 208, 222, 52, 233, 79, 6, 194, 68, 168, 180, 42, 142, 172>>,
     public_key |->
       <<113, 86, 155, 15, 80, 226, 178, 67, 132, 200, 176, 93, 95, 123, 244, 68,
         230, 15, 93, 204, 119, 111, 144, 250, 93, 151, 95, 111, 64, 25, 239,
         141>>],
    [seed |->
       <<40, 72, 124, 166, 237, 215, 137, 22, 77, 236, 99, 224, 76, 113, 43, 4, 82,
         98, 15, 62, 150, 106, 11, 48, 153, 128, 98, 156, 18, 112, 108, 147>>,
     public_key |->
       <<20, 131, 86, 119, 204, 207, 165, 82, 119, 164, 9, 168, 177, 160, 140, 133,
         84, 86, 111, 206, 55, 136, 10, 31, 1, 79, 24, 48, 63, 88, 231, 42>>],
    [seed |->
       <<45, 157, 156, 246, 92, 188, 250, 237, 115, 1, 165, 148, 104, 217, 163, 84,
         129, 13, 37, 114, 6, 65, 31, 17, 129, 194, 24, 216, 127, 155, 4,
         101>>,
     public_key |->
       <<174, 90, 235, 138, 31, 87, 19, 251, 228, 95, 32, 142, 104, 250, 222, 67, 46,
         240, 203, 230, 84, 187, 161, 93, 45, 157, 208, 218, 151, 80, 82, 38>>],
    [seed |->
       <<46, 215, 244, 76, 59, 153, 187, 127, 124, 191, 196, 141, 212, 4, 11, 230,
         168, 35, 137, 110, 167, 241, 175, 125, 107, 86, 165, 150, 202, 161,
         37, 253>>,
     public_key |->
       <<197, 165, 209, 5, 184, 78, 165, 129, 164, 156, 168, 25, 20, 51, 40, 115, 84,
         148, 200, 40, 48, 34, 158, 248, 163, 131, 23, 70, 122, 254, 153,
         208>>],
    [seed |->
       <<67, 167, 242, 166, 253, 213, 193, 38, 57, 6, 165, 177, 154, 39, 220, 165,
         199, 203, 184, 243, 129, 7, 178, 136, 2, 6, 10, 70, 73, 195, 38,
         161>>,
     public_key |->
       <<137, 201, 20, 234, 169, 102, 253, 16, 23, 247, 125, 236, 182, 67, 75, 167,
         247, 78, 139, 240, 183, 255, 133, 169, 173, 241, 196, 46, 122, 42,
         102, 213>>],
    [seed |->
       <<71, 35, 117, 145, 136, 49, 59, 151, 79, 254, 192, 178, 89, 116, 132, 131,
         170, 222, 171, 173, 241, 173, 135, 150, 134, 27, 22, 128, 159, 38,
         183, 241>>,
     public_key |->
       <<248, 123, 142, 164, 89, 129, 145, 133, 165, 58, 150, 185, 33, 129, 37, 33,
         145, 196, 57, 206, 40, 102, 140, 155, 96, 85, 218, 239, 2, 243, 102,
         119>>],
    [seed |->
       <<76, 205, 8, 155, 40, 255, 150, 218, 157, 182, 195, 70, 236, 17, 78, 15, 91,
         138, 49, 159, 53, 171, 166, 36, 218, 140, 246, 237, 79, 184, 166,
         251>>,
     public_key |->
       <<61, 64, 23, 195, 232, 67, 137, 90, 146, 183, 10, 167, 77, 27, 126, 188, 156,
         152, 44, 207, 46, 196, 150, 140, 192, 205, 85, 241, 42, 244, 102,
         12>>],
    [seed |->
       <<77, 162, 186, 140, 161, 137, 202, 224, 174, 162, 182, 241, 106, 46, 205,
         133, 218, 137, 97, 176, 251, 169, 65, 129, 48, 165, 150, 229, 225, 0,
         90, 59>>,
     public_key |->
       <<104, 56, 23, 119, 232, 207, 154, 220, 109, 173, 50, 17, 185, 5, 106, 119,
         75, 188, 180, 148, 5, 40, 2, 126, 75, 180, 88, 3, 184, 170, 31, 115>>],
    [seed |->
       <<78, 114, 166, 7, 131, 254, 199, 198, 227, 57, 188, 206, 247, 40, 84, 190,
         168, 26, 35, 66, 254, 250, 29, 92, 61, 35, 230, 187, 202, 209, 216,
         244>>,
     public_key |->
       <<173, 6, 225, 130, 124, 183, 6, 55, 32, 217, 52, 93, 222, 215, 254, 0, 70,
         121, 166, 214, 133, 212, 172, 31, 60, 223, 172, 204, 207, 35, 27,
         239>>],
    [seed |->
       <<88, 141, 142, 120, 253, 240, 206, 181, 3, 176, 155, 74, 39, 51, 68, 248,
         163, 22, 68, 47, 169, 34, 157, 164, 240, 188, 44, 139, 30, 82, 182,
         52>>,
     public_key |->
       <<100, 35, 122, 212, 169, 166, 40, 129, 212, 81, 166, 18, 198, 227, 74, 146,
         210, 92, 165, 51, 224, 241, 231, 231, 68, 129, 93, 58, 61, 242, 169,
         153>>],
    [seed |->
       <<118, 9, 95, 147, 188, 243, 21, 90, 32, 2, 37, 88, 0, 174, 137, 155, 32, 255,
         12, 58, 28, 188, 100, 130, 102, 237, 54, 128, 31, 187, 181, 66>>,
     public_key |->
       <<168, 103, 204, 155, 124, 219, 210, 248, 18, 156, 6, 244, 189, 23, 51, 117,
         175, 193, 209, 131, 99, 72, 225, 31, 112, 21, 89, 250, 5, 131, 229,
         120>>],
    [seed |->
       <<118, 185, 219, 157, 28, 179, 15, 192, 176, 18, 48, 181, 6, 44, 126, 75, 137,
         27, 74, 155, 234, 95, 243, 129, 146, 238, 80, 244, 139, 158, 240,
         151>>,
     public_key |->
       <<152, 84, 243, 30, 228, 181, 83, 78, 232, 38, 240, 177, 193, 129, 36, 252,
         240, 116, 247, 13, 6, 149, 221, 151, 114, 100, 69, 178, 10, 82, 203,
         143>>],
    [seed |->
       <<128, 239, 177, 71, 78, 156, 102, 50, 33, 22, 33, 67, 98, 150, 83, 148, 179,
         34, 81, 228, 243, 162, 116, 218, 36, 222, 11, 216, 179, 40, 231,
         197>>,
     public_key |->
       <<48, 43, 46, 241, 141, 250, 83, 144, 223, 164, 65, 102, 6, 159, 190, 31, 246,
         167, 220, 76, 202, 76, 54, 148, 209, 126, 202, 122, 26, 1, 44, 196>>],
    [seed |->
       <<139, 150, 48, 218, 49, 24, 118, 136, 36, 180, 135, 96, 28, 19, 240, 221,
         129, 208, 65, 81, 241, 188, 193, 245, 108, 38, 200, 211, 251, 50, 48,
         16>>,
     public_key |->
       <<250, 251, 25, 8, 31, 215, 74, 29, 94, 78, 114, 95, 252, 97, 55, 103, 110,
         148, 33, 156, 52, 163, 205, 192, 48, 86, 159, 151, 7, 171, 48, 57>>],
    [seed |->
       <<140, 248, 203, 204, 149, 170, 229, 48, 63, 69, 233, 182, 186, 247, 175, 230,
         211, 220, 131, 150, 82, 129, 94, 123, 68, 54, 221, 250, 79, 6, 157,
         191>>,
     public_key |->
       <<155, 82, 53, 220, 204, 213, 229, 49, 195, 175, 222, 188, 131, 150, 2, 67, 8,
         82, 167, 127, 95, 35, 77, 174, 250, 228, 205, 159, 144, 187, 164,
         102>>],
    [seed |->
       <<156, 58, 235, 29, 96, 173, 23, 156, 27, 16, 161, 31, 64, 186, 2, 158, 122,
         148, 215, 60, 245, 60, 22, 255, 49, 128, 41, 81, 172, 167, 161, 64>>,
     public_key |->
       <<63, 59, 233, 42, 247, 199, 165, 106, 171, 135, 160, 106, 49, 79, 53, 247,
         43, 152, 163, 82, 147, 19, 128, 140, 230, 7, 198, 221, 226, 87, 178,
         173>>],
    [seed |->
       <<157, 97, 177, 157, 239, 253, 90, 96, 186, 132, 74, 244, 146, 236, 44, 196,
         68, 73, 197, 105, 123, 50, 105, 25, 112, 59, 172, 3, 28, 174, 127,
         96>>,
     public_key |->
       <<215, 90, 152, 1, 130, 177, 10, 183, 213, 75, 254, 211, 201, 100, 7, 58, 14,
         225, 114, 243, 218, 166, 35, 37, 175, 2, 26, 104, 247, 7, 81, 26>>],
    [seed |->
       <<164, 95, 193, 219, 207, 219, 77, 236, 220, 220, 149, 230, 30, 86, 172, 172,
         25, 10, 7, 52, 114, 62, 242, 27, 113, 62, 24, 85, 249, 7, 103, 188>>,
     public_key |->
       <<238, 246, 161, 208, 75, 238, 27, 92, 225, 116, 0, 143, 33, 253, 148, 231,
         170, 124, 71, 71, 224, 207, 86, 93, 154, 130, 104, 56, 251, 138, 246,
         108>>],
    [seed |->
       <<170, 103, 163, 38, 121, 183, 235, 22, 251, 197, 189, 150, 85, 255, 236, 115,
         251, 0, 106, 77, 37, 158, 74, 182, 189, 240, 113, 195, 84, 129, 76,
         127>>,
     public_key |->
       <<39, 49, 19, 130, 158, 62, 96, 152, 54, 36, 252, 56, 198, 196, 180, 130, 21,
         4, 96, 171, 12, 189, 202, 240, 55, 115, 248, 185, 105, 22, 226, 54>>],
    [seed |->
       <<171, 141, 98, 204, 158, 151, 130, 16, 113, 176, 60, 182, 71, 241, 14, 237,
         63, 242, 212, 235, 29, 243, 251, 31, 117, 34, 15, 54, 77, 235, 83,
         164>>,
     public_key |->
       <<74, 37, 6, 227, 128, 163, 210, 45, 112, 97, 245, 23, 243, 82, 90, 73, 166,
         43, 180, 43, 31, 164, 18, 102, 66, 170, 208, 115, 202, 114, 77, 18>>],
    [seed |->
       <<188, 200, 102, 228, 214, 54, 214, 239, 223, 76, 112, 208, 12, 209, 183, 227,
         93, 176, 64, 225, 53, 155, 91, 15, 212, 122, 5, 49, 239, 43, 104,
         180>>,
     public_key |->
       <<131, 242, 194, 193, 93, 91, 106, 76, 94, 4, 201, 8, 202, 106, 137, 145, 4,
         9, 155, 148, 120, 198, 75, 18, 197, 26, 198, 29, 86, 137, 219, 161>>],
    [seed |->
       <<211, 72, 38, 157, 236, 82, 189, 180, 26, 133, 228, 232, 1, 9, 11, 35, 181,
         5, 9, 73, 171, 222, 104, 121, 18, 203, 60, 98, 60, 167, 77, 50>>,
     public_key |->
       <<203, 195, 7, 199, 90, 54, 183, 29, 180, 248, 212, 46, 49, 163, 101, 64, 210,
         203, 207, 59, 170, 253, 229, 4, 76, 128, 193, 197, 120, 200, 181, 3>>],
    [seed |->
       <<215, 241, 236, 11, 196, 155, 252, 241, 192, 197, 241, 192, 124, 59, 61, 18,
         161, 138, 122, 174, 143, 141, 21, 71, 166, 221, 129, 16, 67, 13, 186,
         163>>,
     public_key |->
       <<50, 90, 144, 168, 220, 103, 244, 240, 222, 106, 87, 139, 47, 129, 16, 199,
         140, 146, 49, 14, 6, 123, 175, 197, 116, 85, 138, 248, 104, 44, 180,
         7>>],
    [seed |->
       <<227, 81, 19, 221, 163, 219, 35, 121, 99, 210, 50, 168, 153, 67, 179, 77, 1,
         27, 21, 237, 195, 138, 70, 227, 170, 100, 14, 89, 150, 76, 100, 178>>,
     public_key |->
       <<38, 247, 89, 205, 37, 146, 86, 143, 189, 172, 45, 97, 57, 84, 29, 160, 50,
         17, 75, 36, 214, 138, 25, 222, 70, 193, 112, 217, 230, 244, 144, 46>>],
    [seed |->
       <<241, 121, 195, 113, 170, 86, 187, 255, 1, 215, 192, 237, 130, 27, 10, 188,
         240, 156, 107, 79, 216, 29, 238, 101, 89, 4, 165, 34, 215, 162, 120,
         75>>,
     public_key |->
       <<36, 197, 81, 128, 22, 179, 1, 83, 198, 82, 70, 239, 67, 216, 153, 195, 110,
         24, 236, 195, 156, 202, 98, 224, 230, 246, 185, 172, 19, 117, 158,
         249>>],
    [seed |->
       <<245, 165, 253, 66, 209, 106, 32, 48, 39, 152, 239, 110, 211, 9, 151, 155,
         67, 0, 61, 35, 32, 217, 240, 232, 234, 152, 49, 169, 39, 89, 251,
         75>>,
     public_key |->
       <<203, 126, 20, 189, 126, 251, 201, 238, 0, 18, 75, 144, 152, 132, 171, 205,
         93, 58, 177, 161, 24, 244, 12, 145, 7, 125, 38, 23, 64, 104, 32,
         241>>],
    [seed |->
       <<247, 136, 250, 51, 128, 22, 140, 145, 175, 245, 37, 246, 32, 153, 202, 146,
         27, 0, 244, 178, 65, 159, 84, 169, 104, 19, 199, 78, 37, 101, 13,
         23>>,
     public_key |->
       <<206, 162, 7, 228, 201, 174, 13, 233, 151, 32, 138, 251, 52, 82, 213, 83,
         120, 215, 74, 16, 62, 94, 216, 212, 161, 228, 48, 173, 50, 168, 52,
         247>>],
    [seed |->
       <<251, 146, 46, 232, 184, 95, 20, 123, 226, 178, 115, 231, 47, 29, 169, 109,
         221, 84, 48, 208, 184, 174, 113, 109, 59, 76, 140, 46, 130, 253, 42,
         201>>,
     public_key |->
       <<241, 105, 64, 180, 238, 212, 175, 30, 171, 240, 48, 178, 168, 2, 158, 225,
         200, 205, 239, 170, 19, 44, 42, 35, 128, 91, 187, 227, 25, 175, 169,
         4>>],
    [seed |->
       <<255, 224, 8, 10, 21, 32, 43, 54, 65, 76, 87, 98, 109, 120, 131, 142, 153,
         164, 175, 186, 197, 208, 219, 230, 241, 252, 7, 18, 29, 40, 51, 62>>,
     public_key |->
       <<43, 14, 200, 223, 175, 244, 194, 52, 138, 92, 171, 2, 218, 140, 110, 199,
         11, 231, 38, 170, 162, 233, 202, 186, 82, 239, 93, 39, 67, 41, 49,
         63>>],
    [seed |->
       <<255, 224, 8, 47, 58, 69, 80, 91, 102, 113, 124, 135, 146, 157, 168, 179,
         190, 201, 212, 223, 234, 245, 0, 11, 22, 33, 44, 55, 66, 77, 88, 99>>,
     public_key |->
       <<78, 58, 120, 131, 26, 169, 90, 59, 193, 57, 224, 185, 160, 69, 84, 184, 152,
         6, 173, 176, 181, 145, 53, 172, 198, 225, 24, 219, 189, 131, 244,
         98>>],
    [seed |->
       <<255, 224, 8, 81, 92, 103, 114, 125, 136, 147, 158, 169, 180, 191, 202, 213,
         224, 235, 246, 1, 12, 23, 34, 45, 56, 67, 78, 89, 100, 111, 122,
         133>>,
     public_key |->
       <<35, 233, 141, 211, 152, 30, 222, 13, 248, 220, 232, 41, 154, 80, 219, 188,
         255, 50, 128, 174, 91, 108, 68, 126, 134, 229, 117, 153, 4, 162, 156,
         221>>],
    [seed |->
       <<255, 224, 8, 118, 129, 140, 151, 162, 173, 184, 195, 206, 217, 228, 239,
         250, 5, 16, 27, 38, 49, 60, 71, 82, 93, 104, 115, 126, 137, 148, 159,
         170>>,
     public_key |->
       <<109, 70, 247, 63, 163, 111, 23, 254, 221, 106, 220, 167, 51, 166, 236, 217,
         56, 219, 49, 12, 13, 169, 7, 240, 23, 245, 172, 188, 174, 47, 234,
         218>>],
    [seed |->
       <<255, 224, 8, 155, 166, 177, 188, 199, 210, 221, 232, 243, 254, 9, 20, 31,
         42, 53, 64, 75, 86, 97, 108, 119, 130, 141, 152, 163, 174, 185, 196,
         207>>,
     public_key |->
       <<68, 50, 17, 116, 85, 233, 47, 95, 56, 48, 199, 183, 51, 167, 62, 54, 4, 21,
         47, 124, 168, 43, 138, 222, 5, 211, 181, 79, 244, 187, 176, 215>>],
    [seed |->
       <<255, 224, 8, 192, 203, 214, 225, 236, 247, 2, 13, 24, 35, 46, 57, 68, 79,
         90, 101, 112, 123, 134, 145, 156, 167, 178, 189, 200, 211, 222, 233,
         244>>,
     public_key |->
       <<124, 65, 64, 108, 24, 20, 4, 157, 12, 33, 151, 238, 136, 72, 97, 1, 232, 13,
         128, 224, 179, 148, 13, 45, 104, 220, 147, 85, 211, 130, 9, 106>>],
    [seed |->
       <<255, 224, 8, 229, 240, 251, 6, 17, 28, 39, 50, 61, 72, 83, 94, 105, 116,
         127, 138, 149, 160, 171, 182, 193, 204, 215, 226, 237, 248, 3, 14,
         25>>,
     public_key |->
       <<21, 213, 117, 167, 157, 112, 214, 33, 197, 88, 13, 16, 220, 175, 162, 104,
         178, 162, 154, 147, 190, 27, 150, 53, 14, 23, 59, 10, 134, 96, 29,
         229>>]
  }

\* The 32-byte ed25519 public key of a 32-byte seed, as both
\* nacl.signing.SigningKey(seed).verify_key and
\* Ed25519PrivateKey.from_private_bytes(seed).public_key() compute it
\* (RFC 8032).  Defined on the tabulated seeds only.
Ed25519PublicKey(seed32) ==
  (CHOOSE e \in Ed25519Table : e.seed = seed32).public_key

\* nacl.signing.SigningKey(seed): bytes(signing_key) is the seed,
\* bytes(signing_key.verify_key) the public key.
SigningKey(seed32) == [seed |-> seed32, verify_key |-> Ed25519PublicKey(seed32)]

\* generate_from_seed, lines 199-222: the keys of key_material, by PyNaCl
\* (lines 201-207) or by the cryptography library (lines 210-217)
KeysOf(key_material, has_nacl) ==
  LET Nacl(signing_key) ==
        [private_key |-> signing_key.seed \o signing_key.verify_key,
         public_key |-> signing_key.verify_key]
      Cryptography(public_key) ==
        [private_key |-> key_material \o public_key, public_key |-> public_key]
  IN IF has_nacl THEN Nacl(SigningKey(key_material))
     ELSE Cryptography(Ed25519PublicKey(key_material))

\* generate_from_seed with the first 32 bytes of the seed itself, unhashed,
\* as key material
generate_from_seed_unhashed(seed, has_nacl) == KeysOf(TakeFirst(seed, 32), has_nacl)
\* ValidatorKey.generate_from_seed(seed) under the module flag HAS_NACL.
generate_from_seed(seed, has_nacl) == KeysOf(sha256(seed), has_nacl)

\* Length of the address prefix of the hash, in bytes.
AddressBytes == 20

\* ValidatorKey.generate_address(public_key)
generate_address(public_key) ==
  Return(HexUpper(TakeFirst(sha256(public_key), AddressBytes)))

\* ValidatorKey.create_priv_validator_key(private_key, public_key)
create_priv_validator_key(private_key, public_key) ==
  LET Record(address) ==
        IF IsRaise(address) THEN address
        ELSE Return([address |-> address.value,
                     pub_key |-> [type |-> "tendermint/PubKeyEd25519",
                                  value |-> b64encode(public_key)],
                     priv_key |-> [type |-> "tendermint/PrivKeyEd25519",
                                   value |-> b64encode(private_key)]])
  IN Record(generate_address(public_key))

(***************************************************************************)
(* Inputs: bounded families of entropy, seeds, wordlist files, mnemonics   *)
(* and command lines.                                                      *)
(***************************************************************************)
\* The k-th sample byte string of length n.  Sample 0 is all zero bytes
\* (for n = 16 the entropy of the published vector "abandon ... about").
\* The other samples start with FF E0 08, so that the first 11-bit group
\* is 2047 and the second is 2, and continue with a progression.
ByteSample(n, k) ==
  Tuple([i \in 1..n |->
           IF k = 0 THEN 0
           ELSE IF i = 1 THEN 255
           ELSE IF i = 2 THEN 224
           ELSE IF i = 3 THEN 8
           ELSE (37 * k + 11 * i) % 256])

EntropySamples == 0..MaxEntropySample
\* secrets.token_bytes when the system's generator yields sample k:
\* token_bytes(n) is the k-th sample of length n.
TokenBytes(k) == [n \in 0..64 |-> ByteSample(n, k)]

\* The object built from the standard wordlist file in the working directory.
StandardFs == FsWith("cwd", DefaultName, "standard")
StandardObject == BIP39(StandardFs, DefaultName).value

\* Mnemonics derived from a given one, as a caller may supply them.
\* The same words with other whitespace around and between them.
RECURSIVE Glue(_, _)
Glue(words, i) ==
  IF i > Len(words) THEN <<10>>
  ELSE (IF i = 1 THEN <<32>> ELSE IF i % 2 = 1 THEN <<32, 32>> ELSE <<9>>)
         \o words[i] \o Glue(words, i + 1)
Respaced(m) == Glue(split(m), 1)
\* One more word at the end.
Extended(m) == m \o <<32>> \o Word(0)
\* The last word removed.
Shortened(m) ==
  LET AllButLast(words) == SubSeq(words, 1, Len(words) - 1)
  IN join(AllButLast(split(m)))
\* The first word replaced by a word that no wordlist file holds.
WithUnknownWord(m) == join(<< <<122, 122, 122>> >> \o Tail(split(m)))
\* The first word in upper case.
upper(s) == Tuple([i \in 1..Len(s) |-> IF s[i] \in 97..122 THEN s[i] - 32 ELSE s[i]])
WithUpperWord(m) ==
  LET Raised(words) == join(<< upper(Head(words)) >> \o Tail(words))
  IN Raised(split(m))
\* Bit k (0 = lowest) of the index idx flipped.
FlipBit(idx, k) ==
  IF (idx \div (2 ^ k)) % 2 = 1 THEN idx - 2 ^ k ELSE idx + 2 ^ k
\* The mnemonic of the word indices, with bit k of the last index flipped:
\* the last word is replaced by the wordlist word at the flipped index.
WithFlippedBit(self, indices, k) ==
  join(Tuple([i \in 1..Len(indices) |->
                self.wordlist[(IF i = Len(indices) THEN FlipBit(indices[i], k)
                               ELSE indices[i]) + 1]]))

(***************************************************************************)
(* State.                                                                  *)
(***************************************************************************)
VARIABLES
  HAS_NACL,          \* module flag: PyNaCl was imported
  HAS_CRYPTOGRAPHY,  \* module flag: the cryptography fallback was imported
  files,             \* the file system: what is at each path
  stdout_encoding,   \* sys.stdout.encoding
  disk,              \* the output files written: a set of [path, content]
  argv,              \* sys.argv of the run of main()
  pc,                \* position of the run
  exit_code,         \* -1 while running, else the process exit code
  uncaught,          \* class of the exception that ended the run, or None
  bip39,             \* the BIP39 object (NoObject until constructed)
  output_file,       \* main: output_file
  mnemonic,          \* main: mnemonic
  passphrase,        \* passphrase given to mnemonic_to_seed
  validated,         \* what validate_mnemonic returned: "not_run", "True", "False"
  seed,              \* main: seed
  keys,              \* main: keys
  validator_key,     \* main: validator_key
  rng_calls,         \* number of calls of secrets.token_bytes
  gen,               \* the last call of generate_mnemonic / _entropy_to_mnemonic
  call,              \* the last call of another method and what it returned
  runs               \* the completed pipeline runs

vars == <<HAS_NACL, HAS_CRYPTOGRAPHY, files, stdout_encoding, disk, argv, pc, exit_code, uncaught,
          bip39, output_file, mnemonic, passphrase, validated, seed, keys,
          validator_key, rng_calls, gen, call, runs>>

NoObject == [wordlist |-> <<>>, wordlist_dict |-> <<>>]
\* No seed: the empty byte string.
NoSeed == <<>>
NoKeys == [private_key |-> <<>>, public_key |-> <<>>]
NoRecord == [address |-> <<>>,
             pub_key |-> [type |-> "", value |-> <<>>],
             priv_key |-> [type |-> "", value |-> <<>>]]
NoGen == [op |-> "none", strength |-> 0, drawn |-> FALSE, entropy |-> <<>>,
          bits |-> <<>>, indices |-> <<>>, ret |-> Return(None), valid |-> "not_run"]
NoCall == [op |-> "none", arg |-> <<>>, variant |-> "none", words |-> <<>>,
           entropy_bits |-> <<>>, checksum_bits |-> <<>>, ret |-> Return(None)]

\* Module import (lines 26-48): the flags that the installed libraries give.
\* With neither library the module calls sys.exit(1) before main() runs.
ImportOutcomes ==
  { [nacl |-> TRUE, cryptography |-> FALSE],
    [nacl |-> FALSE, cryptography |-> TRUE],
    [nacl |-> FALSE, cryptography |-> FALSE] }

\* Values of the variables before any operation has run.
Fresh ==
  /\ disk = {}
  /\ exit_code = -1
  /\ uncaught = None
  /\ output_file = ""
  /\ mnemonic = <<>>
  /\ passphrase = <<>>
  /\ validated = "not_run"
  /\ keys = NoKeys
  /\ validator_key = NoRecord
  /\ rng_calls = 0
  /\ gen = NoGen
  /\ call = NoCall
  /\ runs = <<>>

(***************************************************************************)
(* main(): one run of the program.                                         *)
(***************************************************************************)
\* 'generate'
GenerateWord == <<103, 101, 110, 101, 114, 97, 116, 101>>

\* The mnemonic of the k-th 16-byte entropy sample under the standard wordlist.
PhraseSample(k) == _entropy_to_mnemonic(StandardObject, ByteSample(16, k)).value
PhraseIndices(k) == EntropyToMnemonicRun(StandardObject, ByteSample(16, k)).indices

\* Command lines with the mnemonic m: m itself, and m with the lowest
\* checksum bit flipped.
PhraseArgvs(k) ==
  { <<"genvalidatorkey.py", PhraseSample(k)>>,
    <<"genvalidatorkey.py", WithFlippedBit(StandardObject, PhraseIndices(k), 0)>> }

MainArgvs ==
  { <<"genvalidatorkey.py">>,
    <<"genvalidatorkey.py", GenerateWord>>,
    <<"genvalidatorkey.py", upper(GenerateWord), "out.json">>,
    <<"genvalidatorkey.py", GenerateWord, DefaultName>>,
    <<"genvalidatorkey.py", PhraseSample(0), "out.json">>,
    <<"genvalidatorkey.py", PhraseSample(0), "">>,
    <<"genvalidatorkey.py", PhraseSample(0), "sub/out.json">>,
    <<"genvalidatorkey.py", Respaced(PhraseSample(0))>>,
    <<"genvalidatorkey.py", Extended(PhraseSample(0))>>,
    <<"genvalidatorkey.py", WithUnknownWord(PhraseSample(0))>> }
  \cup UNION {PhraseArgvs(k) : k \in 0..MaxPhraseSample}

MainFs ==
  { StandardFs,
    EmptyFs,
    FsWith("script", DefaultName, "padded"),
    FsWith("cwd", DefaultName, "short"),
    [FsWith("cwd", DefaultName, "long") EXCEPT ![<<"script", DefaultName>>] = "standard"],
    FsWith("cwd", DefaultName, "duplicate"),
    FsWith("cwd", DefaultName, "directory"),
    [StandardFs EXCEPT ![<<"cwd", "out.json">>] = "directory"] }

\* Encodings of sys.stdout: one that has the characters printed at lines
\* 322 and 326, and one that has ASCII only.
StdoutEncodings == {"utf-8", "ascii"}

Init ==
  /\ \E lib \in ImportOutcomes :
       /\ HAS_NACL = lib.nacl
       /\ HAS_CRYPTOGRAPHY = lib.cryptography
       /\ pc = IF lib.nacl \/ lib.cryptography THEN "main" ELSE "import_failed"
  /\ files \in MainFs
  /\ stdout_encoding \in StdoutEncodings
  /\ argv \in MainArgvs
  /\ bip39 = NoObject
  /\ seed = NoSeed
  /\ Fresh

\* What main() never assigns: the flags, sys.argv, and the variables of the
\* other harnesses.
MainFrame == UNCHANGED <<HAS_NACL, HAS_CRYPTOGRAPHY, stdout_encoding, argv, passphrase, gen, call, runs>>

\* sys.exit(1)
Exit1 == pc' = "exit" /\ exit_code' = 1

\* lines 37-46: neither library could be imported; sys.exit(1)
ImportExit ==
  /\ pc = "import_failed"
  /\ Exit1
  /\ UNCHANGED <<disk, uncaught, bip39, output_file, mnemonic, validated, seed, keys,
                 validator_key, rng_calls>>
  /\ UNCHANGED files
  /\ MainFrame

\* lines 269-278: usage and exit when no argument is given
CheckArgs ==
  /\ pc = "main"
  /\ IF Len(argv) < 2 THEN Exit1 ELSE pc' = "load" /\ exit_code' = exit_code
  /\ UNCHANGED <<disk, uncaught, bip39, output_file, mnemonic, validated, seed, keys,
                 validator_key, rng_calls>>
  /\ UNCHANGED files
  /\ MainFrame

\* lines 280-285: bip39 = BIP39(); FileNotFoundError is reported and ends
\* the run with exit code 1, any other exception is uncaught (the
\* interpreter prints the traceback and exits with code 1)
LoadWordlist ==
  /\ pc = "load"
  /\ LET Loaded(r) ==
           IF r.raised = "FileNotFoundError"
           THEN Exit1 /\ UNCHANGED <<bip39, uncaught>>
           ELSE IF IsRaise(r)
           THEN Exit1 /\ uncaught' = r.raised /\ UNCHANGED bip39
           ELSE /\ bip39' = r.value
                /\ pc' = "output"
                /\ UNCHANGED <<exit_code, uncaught>>
     IN Loaded(BIP39(files, DefaultName))
  /\ UNCHANGED <<disk, output_file, mnemonic, validated, seed, keys, validator_key,
                 rng_calls>>
  /\ UNCHANGED files
  /\ MainFrame

\* lines 287-290
SetOutputFile ==
  /\ pc = "output"
  /\ output_file' = IF Len(argv) > 2 THEN argv[3] ELSE DefaultOutputFile
  /\ pc' = "mode"
  /\ UNCHANGED <<disk, exit_code, uncaught, bip39, mnemonic, validated, seed, keys,
                 validator_key, rng_calls>>
  /\ UNCHANGED files
  /\ MainFrame

\* line 293
GenerateMode == lower(argv[2]) = GenerateWord

\* lines 293-297: mnemonic = bip39.generate_mnemonic(strength=256)
Generate ==
  /\ pc = "mode"
  /\ GenerateMode
  /\ LET Generated(g) ==
           /\ rng_calls' = rng_calls + (IF g.drawn THEN 1 ELSE 0)
           /\ IF IsRaise(g.ret)
              THEN Exit1 /\ uncaught' = g.ret.raised /\ UNCHANGED mnemonic
              ELSE /\ mnemonic' = g.ret.value
                   /\ pc' = "seed"
                   /\ UNCHANGED <<exit_code, uncaught>>
     IN \E k \in EntropySamples : Generated(GenerateMnemonicRun(bip39, 256, TokenBytes(k)))
  /\ UNCHANGED <<disk, bip39, output_file, validated, seed, keys, validator_key>>
  /\ UNCHANGED files
  /\ MainFrame

\* lines 298-304 without the check of what validate_mnemonic returned
UsePhraseUnchecked ==
  /\ pc = "mode"
  /\ ~GenerateMode
  /\ mnemonic' = argv[2]
  /\ pc' = "seed"
  /\ UNCHANGED <<disk, exit_code, uncaught, bip39, output_file, validated, seed, keys,
                 validator_key, rng_calls>>
  /\ UNCHANGED files
  /\ MainFrame
\* lines 298-304: the supplied mnemonic is validated; an invalid one ends
\* the run with exit code 1
UsePhrase ==
  /\ pc = "mode"
  /\ ~GenerateMode
  /\ mnemonic' = argv[2]
  /\ LET Checked(r) ==
           IF IsRaise(r)
           THEN Exit1 /\ uncaught' = r.raised /\ UNCHANGED validated
           ELSE /\ validated' = IF r.value THEN "True" ELSE "False"
                /\ uncaught' = uncaught
                /\ IF r.value THEN pc' = "seed" /\ exit_code' = exit_code ELSE Exit1
     IN Checked(validate_mnemonic(bip39, argv[2]))
  /\ UNCHANGED <<disk, bip39, output_file, seed, keys, validator_key, rng_calls>>
  /\ UNCHANGED files
  /\ MainFrame

\* lines 306-307: seed = bip39.mnemonic_to_seed(mnemonic)
DeriveSeed ==
  /\ pc = "seed"
  /\ seed' = mnemonic_to_seed(mnemonic, <<>>)
  /\ pc' = "keys"
  /\ UNCHANGED <<disk, exit_code, uncaught, bip39, output_file, mnemonic, validated,
                 keys, validator_key, rng_calls>>
  /\ UNCHANGED files
  /\ MainFrame

\* lines 309-310: keys = ValidatorKey.generate_from_seed(seed)
DeriveKeys ==
  /\ pc = "keys"
  /\ keys' = generate_from_seed(seed, HAS_NACL)
  /\ pc' = "record"
  /\ UNCHANGED <<disk, exit_code, uncaught, bip39, output_file, mnemonic, validated,
                 seed, validator_key, rng_calls>>
  /\ UNCHANGED files
  /\ MainFrame

\* lines 312-316: validator_key = ValidatorKey.create_priv_validator_key(...)
BuildRecord ==
  /\ pc = "record"
  /\ LET Built(r) ==
           IF IsRaise(r)
           THEN Exit1 /\ uncaught' = r.raised /\ UNCHANGED validator_key
           ELSE /\ validator_key' = r.value
                /\ pc' = "write"
                /\ UNCHANGED <<exit_code, uncaught>>
     IN Built(create_priv_validator_key(keys.private_key, keys.public_key))
  /\ UNCHANGED <<disk, bip39, output_file, mnemonic, validated, seed, keys, rng_calls>>
  /\ UNCHANGED files
  /\ MainFrame

\* os.path.dirname of the paths given for the record file
DirName(path) == IF path = "sub/out.json" THEN "sub" ELSE ""

\* open(path, 'w') in the working directory (line 319): the exception it
\* raises, or None returned when the file is created or truncated.
OpenForWrite(fs, path) ==
  IF path = "" THEN Raise("FileNotFoundError")
  ELSE IF DirName(path) # "" /\ (<<"cwd", DirName(path)>> \notin DOMAIN fs
                                  \/ fs[<<"cwd", DirName(path)>>] # "directory")
  THEN Raise("FileNotFoundError")
  ELSE IF <<"cwd", path>> \in DOMAIN fs /\ fs[<<"cwd", path>>] = "directory"
  THEN Raise("IsADirectoryError")
  ELSE Return(None)

\* print() of the lines 322 and 326, which hold the characters U+2713 and
\* U+26A0 U+FE0F: whether the encoding of sys.stdout has them.
CanPrintSummary(encoding) == encoding = "utf-8"

\* lines 318-327: the record is written to output_file and the summary is
\* printed; main returns.  An exception of open() or print() is uncaught:
\* the interpreter prints the traceback and exits with code 1.  The file
\* is closed (line 320 ends the with block) before the summary is printed.
WriteFile ==
  /\ pc = "write"
  /\ LET Opened(r) ==
           IF IsRaise(r)
           THEN Exit1 /\ uncaught' = r.raised /\ UNCHANGED <<disk, files>>
           ELSE /\ disk' = {f \in disk : f.path # output_file}
                             \cup {[path |-> output_file, content |-> validator_key]}
                /\ files' = IF <<"cwd", output_file>> \in DOMAIN files
                            THEN [files EXCEPT ![<<"cwd", output_file>>] = "json"]
                            ELSE files
                /\ pc' = "exit"
                /\ IF CanPrintSummary(stdout_encoding)
                   THEN exit_code' = 0 /\ UNCHANGED uncaught
                   ELSE exit_code' = 1 /\ uncaught' = "UnicodeEncodeError"
     IN Opened(OpenForWrite(files, output_file))
  /\ UNCHANGED <<bip39, output_file, mnemonic, validated, seed, keys,
                 validator_key, rng_calls>>
  /\ MainFrame

Next ==
  \/ ImportExit
  \/ CheckArgs
  \/ LoadWordlist
  \/ SetOutputFile
  \/ Generate
  \/ UsePhrase
  \/ DeriveSeed
  \/ DeriveKeys
  \/ BuildRecord
  \/ WriteFile

Spec == Init /\ [][Next]_vars

(***************************************************************************)
(* SpecCodec: the methods of class BIP39 called one after another on one   *)
(* object: the constructor, generate_mnemonic or _entropy_to_mnemonic,     *)
(* validate_mnemonic on the mnemonic returned, and validate_mnemonic on a  *)
(* mnemonic derived from it.                                               *)
(***************************************************************************)
\* File systems given to the constructor.
CodecFs ==
  { [StandardFs EXCEPT ![<<"script", "words.txt">>] = "duplicate"],
    FsWith("script", DefaultName, "padded"),
    [FsWith("cwd", DefaultName, "short") EXCEPT ![<<"cwd", "words.txt">>] = "long"],
    EmptyFs }

\* Strengths given to generate_mnemonic: the five supported ones and others.
CodecStrengths == AllowedStrengths \cup {0, 64, 129, 512}
\* Entropy lengths given to _entropy_to_mnemonic directly.
CodecEntropyLengths == {0, 15, 16, 33}

InitCodec ==
  /\ HAS_NACL = TRUE
  /\ HAS_CRYPTOGRAPHY = FALSE
  /\ files \in CodecFs
  /\ stdout_encoding = "utf-8"
  /\ argv = <<>>
  /\ pc = "new"
  /\ bip39 = NoObject
  /\ seed = NoSeed
  /\ Fresh

\* The variables that no call of a BIP39 method assigns.
CodecFrame ==
  UNCHANGED <<HAS_NACL, HAS_CRYPTOGRAPHY, files, stdout_encoding,
              disk, argv, exit_code, output_file,
              mnemonic, passphrase, validated, seed, keys, validator_key, runs>>

\* BIP39(path), lines 54-57
NewBIP39 ==
  /\ pc = "new"
  /\ LET Constructed(path, r) ==
           /\ call' = [NoCall EXCEPT !.op = "BIP39", !.arg = path,
                                     !.ret = IF IsRaise(r) THEN r ELSE Return(None)]
           /\ IF IsRaise(r)
              THEN pc' = "raised" /\ uncaught' = r.raised /\ UNCHANGED bip39
              ELSE pc' = "ready" /\ bip39' = r.value /\ UNCHANGED uncaught
     IN \E path \in FileNames : Constructed(path, BIP39(files, path))
  /\ UNCHANGED <<rng_calls, gen>>
  /\ CodecFrame

\* The call returned g: the locals are kept, an exception ends the sequence.
GenReturned(op, strength, drawn, entropy, g) ==
  /\ gen' = [op |-> op, strength |-> strength, drawn |-> drawn, entropy |-> entropy,
             bits |-> g.bits, indices |-> g.indices, ret |-> g.ret, valid |-> "not_run"]
  /\ rng_calls' = rng_calls + (IF drawn THEN 1 ELSE 0)
  /\ IF IsRaise(g.ret)
     THEN pc' = "raised" /\ uncaught' = g.ret.raised
     ELSE pc' = "generated" /\ UNCHANGED uncaught

\* bip39.generate_mnemonic(strength), lines 84-102
CallGenerateMnemonic ==
  /\ pc = "ready"
  /\ LET Returned(strength, g) ==
           GenReturned("generate_mnemonic", strength, g.drawn, g.entropy, g)
     IN \E strength \in CodecStrengths, k \in EntropySamples :
          Returned(strength, GenerateMnemonicRun(bip39, strength, TokenBytes(k)))
  /\ UNCHANGED <<bip39, call>>
  /\ CodecFrame

\* bip39._entropy_to_mnemonic(entropy), lines 104-124
CallEntropyToMnemonic ==
  /\ pc = "ready"
  /\ LET Returned(entropy) ==
           GenReturned("_entropy_to_mnemonic", 0, FALSE, entropy,
                       EntropyToMnemonicRun(bip39, entropy))
     IN \E n \in CodecEntropyLengths, k \in EntropySamples : Returned(ByteSample(n, k))
  /\ UNCHANGED <<bip39, call>>
  /\ CodecFrame

\* The call of validate_mnemonic(arg) returned v.
Validated(variant, arg, v) ==
  /\ call' = [op |-> "validate_mnemonic", arg |-> arg, variant |-> variant,
              words |-> v.words, entropy_bits |-> v.entropy_bits,
              checksum_bits |-> v.checksum_bits, ret |-> v.ret]
  /\ uncaught' = IF IsRaise(v.ret) THEN v.ret.raised ELSE uncaught

\* What validate_mnemonic returned, as text
Verdict(ret) == IF IsRaise(ret) THEN ret.raised ELSE IF ret.value THEN "True" ELSE "False"

\* bip39.validate_mnemonic(m) for the mnemonic m just generated, lines 126-159
CallValidateMnemonic ==
  /\ pc = "generated"
  /\ LET Returned(v) ==
           /\ Validated("same", gen.ret.value, v)
           /\ gen' = [gen EXCEPT !.valid = Verdict(v.ret)]
     IN Returned(ValidateMnemonicRun(bip39, gen.ret.value))
  /\ pc' = "validated"
  /\ UNCHANGED <<bip39, rng_calls>>
  /\ CodecFrame

\* The mnemonics derived from the generated one: bit k of the checksum
\* flipped, for every checksum bit k; other whitespace; a word more, a word
\* less, no word at all; an unknown word; a word in upper case.
FlipVariants == {<<"flip", k>> : k \in 0..(EntropyChecksumLength(Len(gen.entropy)) - 1)}
OtherVariants ==
  {<<v, 0>> : v \in {"respaced", "extended", "shortened", "empty", "unknown", "upper"}}
VariantOf(v) ==
  CASE v[1] = "flip" -> WithFlippedBit(bip39, gen.indices, v[2])
    [] v[1] = "respaced" -> Respaced(gen.ret.value)
    [] v[1] = "extended" -> Extended(gen.ret.value)
    [] v[1] = "shortened" -> Shortened(gen.ret.value)
    [] v[1] = "empty" -> <<>>
    [] v[1] = "unknown" -> WithUnknownWord(gen.ret.value)
    [] v[1] = "upper" -> WithUpperWord(gen.ret.value)

\* bip39.validate_mnemonic(m') for a mnemonic m' derived from the generated one
CallValidateVariant ==
  /\ pc = "validated"
  /\ LET Returned(v, arg) == Validated(v[1], arg, ValidateMnemonicRun(bip39, arg))
     IN \E v \in FlipVariants \cup OtherVariants : Returned(v, VariantOf(v))
  /\ pc' = "checked"
  /\ UNCHANGED <<bip39, rng_calls, gen>>
  /\ CodecFrame

NextCodec ==
  \/ NewBIP39
  \/ CallGenerateMnemonic
  \/ CallEntropyToMnemonic
  \/ CallValidateMnemonic
  \/ CallValidateVariant

SpecCodec == InitCodec /\ [][NextCodec]_vars

(***************************************************************************)
(* SpecKeys: the static methods of class ValidatorKey called on a seed:    *)
(* generate_from_seed, create_priv_validator_key on its result, and        *)
(* generate_address on byte strings of several lengths.                    *)
(***************************************************************************)
\* Lengths of the byte strings given to generate_address.
KeyLengths == {0, 31, 32, 33, 64}

InitKeys ==
  /\ HAS_NACL \in BOOLEAN
  /\ HAS_CRYPTOGRAPHY = ~HAS_NACL
  /\ files = EmptyFs
  /\ stdout_encoding = "utf-8"
  /\ argv = <<>>
  /\ pc = "seeded"
  /\ bip39 = NoObject
  /\ \E k \in 0..MaxSeedSample : seed = ByteSample(64, k)
  /\ Fresh

\* The variables that no call of a ValidatorKey method assigns.
KeysFrame ==
  UNCHANGED <<HAS_NACL, HAS_CRYPTOGRAPHY, files, stdout_encoding,
              disk, argv, exit_code, uncaught, bip39,
              output_file, mnemonic, passphrase, validated, seed, rng_calls, gen, runs>>

\* ValidatorKey.generate_from_seed(seed), lines 184-222
CallGenerateFromSeed ==
  /\ pc = "seeded"
  /\ keys' = generate_from_seed(seed, HAS_NACL)
  /\ call' = [NoCall EXCEPT !.op = "generate_from_seed", !.arg = seed]
  /\ pc' = "keyed"
  /\ UNCHANGED validator_key
  /\ KeysFrame

\* ValidatorKey.create_priv_validator_key(private_key, public_key), lines 240-264
CallCreatePrivValidatorKey ==
  /\ pc = "keyed"
  /\ LET Returned(r) ==
           /\ call' = [NoCall EXCEPT !.op = "create_priv_validator_key",
                                     !.arg = keys.public_key,
                                     !.ret = IF IsRaise(r) THEN r ELSE Return(None)]
           /\ validator_key' = IF IsRaise(r) THEN validator_key ELSE r.value
     IN Returned(create_priv_validator_key(keys.private_key, keys.public_key))
  /\ pc' = "recorded"
  /\ UNCHANGED keys
  /\ KeysFrame

\* ValidatorKey.generate_address(public_key), lines 224-238, on the first n
\* bytes of the seed
CallGenerateAddress ==
  /\ pc = "seeded"
  /\ LET Returned(public_key) ==
           call' = [NoCall EXCEPT !.op = "generate_address", !.arg = public_key,
                                  !.ret = generate_address(public_key)]
     IN \E n \in KeyLengths : Returned(TakeFirst(seed, n))
  /\ pc' = "addressed"
  /\ UNCHANGED <<keys, validator_key>>
  /\ KeysFrame

NextKeys ==
  \/ CallGenerateFromSeed
  \/ CallCreatePrivValidatorKey
  \/ CallGenerateAddress

SpecKeys == InitKeys /\ [][NextKeys]_vars

(***************************************************************************)
(* SpecPair: successive runs of the phrase-mode pipeline of main() (lines  *)
(* 298-316) on one BIP39 object, each with a mnemonic string and a         *)
(* passphrase: validate_mnemonic, mnemonic_to_seed, generate_from_seed,    *)
(* create_priv_validator_key.  runs keeps what each run was given and what *)
(* it produced.                                                            *)
(***************************************************************************)
\* Mnemonic strings given to the runs.
PairMnemonics ==
  { PhraseSample(0),
    Respaced(PhraseSample(0)),
    PhraseSample(1),
    WithFlippedBit(StandardObject, PhraseIndices(0), 0) }
\* Passphrases given to the runs: '' and 'x'.
PairPassphrases == {<<>>, <<120>>}

InitPair ==
  /\ HAS_NACL \in BOOLEAN
  /\ HAS_CRYPTOGRAPHY = ~HAS_NACL
  /\ files = StandardFs
  /\ stdout_encoding = "utf-8"
  /\ argv = <<>>
  /\ pc = "idle"
  /\ bip39 = StandardObject
  /\ seed = NoSeed
  /\ Fresh

\* The variables that no run of the pipeline assigns.
PairFrame ==
  UNCHANGED <<HAS_NACL, HAS_CRYPTOGRAPHY, files, stdout_encoding,
              disk, argv, exit_code, uncaught, bip39,
              output_file, rng_calls, gen, call>>

\* The run that ends here: what it was given, the words validate_mnemonic
\* saw, and the record it produced (NoRecord when the mnemonic was rejected).
RunOf(m, p, words, record) ==
  [mnemonic |-> m, passphrase |-> p, words |-> words, record |-> record]

\* lines 299-304: the mnemonic is validated; an invalid one ends the run
RunValidate ==
  /\ pc = "idle"
  /\ Len(runs) < MaxRuns
  /\ LET Checked(m, p, v) ==
           IF ~IsRaise(v.ret) /\ v.ret.value
           THEN /\ mnemonic' = m
                /\ passphrase' = p
                /\ validated' = "True"
                /\ pc' = "run_seed"
                /\ UNCHANGED runs
           ELSE /\ runs' = Append(runs, RunOf(m, p, v.words, NoRecord))
                /\ UNCHANGED <<mnemonic, passphrase, validated, pc>>
     IN \E m \in PairMnemonics, p \in PairPassphrases :
          Checked(m, p, ValidateMnemonicRun(bip39, m))
  /\ UNCHANGED <<seed, keys, validator_key>>
  /\ PairFrame

\* line 307, with the passphrase: seed = bip39.mnemonic_to_seed(mnemonic, passphrase)
RunSeed ==
  /\ pc = "run_seed"
  /\ seed' = mnemonic_to_seed(mnemonic, passphrase)
  /\ pc' = "run_keys"
  /\ UNCHANGED <<mnemonic, passphrase, validated, keys, validator_key, runs>>
  /\ PairFrame

\* line 310: keys = ValidatorKey.generate_from_seed(seed)
RunKeys ==
  /\ pc = "run_keys"
  /\ keys' = generate_from_seed(seed, HAS_NACL)
  /\ pc' = "run_record"
  /\ UNCHANGED <<mnemonic, passphrase, validated, seed, validator_key, runs>>
  /\ PairFrame

\* lines 313-316: the record is built; the run ends and its locals go
RunRecord ==
  /\ pc = "run_record"
  /\ runs' = Append(runs,
                    RunOf(mnemonic, passphrase, split(strip(mnemonic)),
                          create_priv_validator_key(keys.private_key,
                                                    keys.public_key).value))
  /\ mnemonic' = <<>>
  /\ passphrase' = <<>>
  /\ validated' = "not_run"
  /\ seed' = NoSeed
  /\ keys' = NoKeys
  /\ validator_key' = NoRecord
  /\ pc' = "idle"
  /\ PairFrame

NextPair ==
  \/ RunValidate
  \/ RunSeed
  \/ RunKeys
  \/ RunRecord

SpecPair == InitPair /\ [][NextPair]_vars

(***************************************************************************)
(* Properties.                                                             *)
(***************************************************************************)
\* The words of the wordlist of the object o.
WordSet(o) == {o.wordlist[i] : i \in 1..Len(o.wordlist)}
\* The object o holds 2048 words, no word twice, and its word -> index map
\* is the exact inverse of its index -> word list.
WellFormedObject(o) ==
  /\ Len(o.wordlist) = 2048
  /\ Cardinality(WordSet(o)) = 2048
  /\ \A i \in 1..Len(o.wordlist) : o.wordlist_dict[o.wordlist[i]] = i - 1
\* Number of words in the lines of a file: the lines that are not blank.
WordCount(lines) == Cardinality({i \in 1..Len(lines) : strip(lines[i]) # <<>>})
\* The text s is made of the characters 0-9 and A-F only.
IsUpperHex(s) == \A i \in 1..Len(s) : s[i] \in (48..57) \cup (65..70)

\* C1: for every supported strength and every entropy of strength/8 bytes,
\* generate_mnemonic / _entropy_to_mnemonic returns a mnemonic of
\* strength/32*3 words, and validate_mnemonic returns True for it.
C1_RoundTrip ==
  (gen.op # "none" /\ Len(gen.entropy) \in {16, 20, 24, 28, 32})
    => /\ ~IsRaise(gen.ret)
       /\ Len(split(gen.ret.value)) = ((8 * Len(gen.entropy)) \div 32) * 3
       /\ gen.valid \in {"not_run", "True"}

\* C2: in every run of main the record file is written, and seed, keys and
\* record are derived, only after the wordlist was loaded and, in phrase
\* mode, validate_mnemonic returned True for the mnemonic supplied; a run
\* whose wordlist load failed or whose mnemonic was rejected has ended with
\* exit code 1 and has derived and written nothing.
C2_FailFast ==
  /\ (pc \in {"output", "mode", "seed", "keys", "record", "write"}) => bip39 # NoObject
  /\ (seed # NoSeed \/ keys # NoKeys \/ validator_key # NoRecord \/ disk # {})
       => /\ bip39 # NoObject
          /\ ~GenerateMode => (validated = "True" /\ mnemonic = argv[2])
  /\ disk # {}
       => /\ pc = "exit"
          /\ seed # NoSeed /\ keys # NoKeys /\ validator_key # NoRecord
          /\ disk = {[path |-> output_file, content |-> validator_key]}
  /\ validated = "False" => (pc = "exit" /\ exit_code = 1)
  /\ (pc = "exit" /\ (bip39 = NoObject \/ validated = "False"))
       => /\ exit_code = 1
          /\ seed = NoSeed /\ keys = NoKeys /\ validator_key = NoRecord /\ disk = {}
\* A phrase-mode run that wrote the record file.
C2_Witness ==
  /\ pc = "exit" /\ exit_code = 0
  /\ validated = "True"
  /\ disk # {}

\* C3: validate_mnemonic returns False, and raises nothing, for a mnemonic
\* whose word count is not 12, 15, 18, 21 or 24, and for a mnemonic of such
\* a length with a word that is not in the wordlist.
C3_InvalidIsFalse ==
  (/\ call.op = "validate_mnemonic"
   /\ \/ Len(call.words) \notin {12, 15, 18, 21, 24}
      \/ \E i \in 1..Len(call.words) : call.words[i] \notin WordSet(bip39))
    => call.ret = Return(FALSE)
\* validate_mnemonic has returned False for a mnemonic of 13 words, and for
\* a mnemonic of 12 words with an unknown word.
C3_Witness ==
  /\ call.op = "validate_mnemonic"
  /\ call.ret = Return(FALSE)
  /\ \/ call.variant = "extended" /\ Len(call.words) = 13
     \/ call.variant = "unknown" /\ Len(call.words) = 12

\* C4: a valid mnemonic with one bit of its checksum flipped (the last word
\* replaced by the wordlist word at the flipped index) is rejected by
\* validate_mnemonic; a mnemonic is accepted only if its trailing
\* wordCount/3 bits are the first wordCount/3 bits of SHA-256 of the
\* entropy before them.
C4_ChecksumBitFlipRejected ==
  /\ (call.op = "validate_mnemonic" /\ call.variant = "flip" /\ gen.valid = "True")
       => call.ret = Return(FALSE)
  /\ (call.op = "validate_mnemonic" /\ call.ret = Return(TRUE))
       => /\ Len(call.checksum_bits) = Len(call.words) \div 3
          /\ call.checksum_bits
               = TakeFirst(BytesToBits(sha256(
                   BitsToBytes(call.entropy_bits, Len(call.entropy_bits) \div 8).value)),
                   Len(call.words) \div 3)

\* C5: two runs of the phrase-mode pipeline that are given the same word
\* sequence and the same passphrase produce records with the same address,
\* public key value and private key value.
C5_SameWordsSameRecord ==
  \A i \in 1..Len(runs) : \A j \in 1..Len(runs) :
    (runs[i].words = runs[j].words /\ runs[i].passphrase = runs[j].passphrase)
      => /\ runs[i].record.address = runs[j].record.address
         /\ runs[i].record.pub_key.value = runs[j].record.pub_key.value
         /\ runs[i].record.priv_key.value = runs[j].record.priv_key.value

\* C6: a wordlist that the constructor loaded has 2048 entries and no word
\* twice, so that the word -> index map is the inverse of the list, and it
\* is never changed afterwards; the load fails when no file is found or
\* the file found does not hold 2048 words.
C6_WordlistLoaded ==
  [][/\ bip39' # NoObject => WellFormedObject(bip39')
     /\ bip39 # NoObject => bip39' = bip39
     /\ (/\ call'.op = "BIP39"
         /\ \/ ResolvePath(files', call'.arg) = <<None, None>>
            \/ WordCount(FileLines(files'[ResolvePath(files', call'.arg)])) # 2048)
          => (IsRaise(call'.ret) /\ bip39' = NoObject)]_vars

\* C7: generate_address raises InvalidKeyLengthError for a public key that
\* is not 32 bytes long, and for a 32-byte public key returns 40 upper-case
\* hex characters: the first 20 bytes of SHA-256 of the key.
C7_AddressContract ==
  call.op = "generate_address"
    => IF Len(call.arg) # 32
       THEN call.ret.raised = "InvalidKeyLengthError"
       ELSE /\ ~IsRaise(call.ret)
            /\ Len(call.ret.value) = 40
            /\ IsUpperHex(call.ret.value)
            /\ call.ret.value = HexUpper(SubSeq(sha256(call.arg), 1, 20))

\* C8: generate_mnemonic raises the invalid-strength error for a strength
\* that is not 128, 160, 192, 224 or 256, before it draws entropy and
\* without returning a mnemonic.
C8_InvalidStrength ==
  (gen.op = "generate_mnemonic" /\ gen.strength \notin {128, 160, 192, 224, 256})
    => /\ gen.ret = Raise("ValueError")
       /\ ~gen.drawn
       /\ gen.entropy = <<>>
       /\ rng_calls = 0
\* generate_mnemonic(64) has raised.
C8_Witness ==
  /\ gen.op = "generate_mnemonic"
  /\ gen.strength = 64
  /\ IsRaise(gen.ret)
  /\ pc = "raised"

\* C9: for a 64-byte seed generate_from_seed returns a 64-byte private key
\* whose first 32 bytes are SHA-256(seed) and whose last 32 bytes are the
\* 32-byte public key returned, and the other library branch returns the
\* same keys for the seed.
C9_KeyMaterial ==
  (keys # NoKeys /\ Len(seed) = 64)
    => /\ Len(keys.private_key) = 64
       /\ Len(keys.public_key) = 32
       /\ SubSeq(keys.private_key, 1, 32) = sha256(seed)
       /\ SubSeq(keys.private_key, 33, 64) = keys.public_key
       /\ generate_from_seed(seed, ~HAS_NACL) = keys
\* generate_from_seed has returned under the cryptography branch.
C9_Witness ==
  /\ pc = "keyed"
  /\ ~HAS_NACL
  /\ Len(seed) = 64
  /\ Len(keys.private_key) = 64

\* C10: for an entropy of 16, 20, 24, 28 or 32 bytes the bit string of
\* _entropy_to_mnemonic has 8*L + L/4 bits, a multiple of 11, so that every
\* group is a complete 11-bit group with a value in 0..2047 and the lookup
\* is in range; in validate_mnemonic the entropy bits of a mnemonic of an
\* allowed word count are 11*wordCount - wordCount/3 bits, a multiple of 8.
C10_BitArithmetic ==
  /\ (gen.op # "none" /\ Len(gen.entropy) \in {16, 20, 24, 28, 32})
       => /\ Len(gen.bits) = 8 * Len(gen.entropy) + Len(gen.entropy) \div 4
          /\ Len(gen.bits) % 11 = 0
          /\ 11 * Len(gen.indices) = Len(gen.bits)
          /\ \A k \in 1..Len(gen.indices) :
               gen.indices[k] \in 0..2047 /\ gen.indices[k] < Len(bip39.wordlist)
          /\ ~IsRaise(gen.ret)
  /\ (/\ call.op = "validate_mnemonic"
      /\ Len(call.words) \in {12, 15, 18, 21, 24}
      /\ \A i \in 1..Len(call.words) : call.words[i] \in WordSet(bip39))
       => /\ Len(call.entropy_bits) = 11 * Len(call.words) - Len(call.words) \div 3
          /\ Len(call.entropy_bits) % 8 = 0
          /\ ~IsRaise(call.ret)
\* A 24-word mnemonic of 32 bytes of entropy has been generated and validated.
C10_Witness ==
  /\ pc = "validated"
  /\ Len(gen.entropy) = 32
  /\ Len(gen.indices) = 24
  /\ Len(call.entropy_bits) = 256
  /\ Len(call.words) = 24
====
